---- MODULE Spec2Model ----
(***************************************************************************)
(* The agent layer of stocksense: PredictionCoordinator and the agents it  *)
(* drives (EnsembleAgent, AdaptiveLearningAgent, DataEnrichmentAgent).     *)
(*                                                                         *)
(* Numbers.  Confidences, data-quality scores, confidence boosts and the   *)
(* coordinator threshold are integers in thousandths (0.75 is 750).        *)
(* Quantities the code obtains by division (relative errors, model         *)
(* weights, the trust score, the combined forecast, the running mean) are  *)
(* exact rationals [n, d] with d > 0.  A float that is NaN is the value    *)
(* NaN below; comparisons with it are false, as in Python.                 *)
(***************************************************************************)
EXTENDS Integers, Sequences, FiniteSets, TLC

\* ------------------------------------------------------------------------
\* Bounds of the exploration
\* ------------------------------------------------------------------------
\* predict() requests explored in one run
MaxPredicts == 3
\* update_with_actual() calls explored in one run
MaxFeedback == 2
\* stands for the 1000 of _log_decision_record, scaled so that eviction happens
HistoryCap == 2
\* stands for the 10 of update_with_actual's save period
SavePeriod == 2
\* stands for the 100 of learn_from_error's error history
ErrorsCap == 3
\* stands for the 20 most recent errors learn_from_error averages
RecentN == 2
\* calls made on the learner itself in one run
MaxLearnerCalls == 3
\* calls running concurrently on one coordinator
MaxThreads == 2
\* models an ensemble holds in the calls made on the functions themselves
MaxModels == 3

\* ------------------------------------------------------------------------
\* Rational arithmetic
\* ------------------------------------------------------------------------
Abs(x) == IF x < 0 THEN -x ELSE x
Min(a, b) == IF a < b THEN a ELSE b

RECURSIVE GCD(_, _)
GCD(a, b) == IF b = 0 THEN a ELSE GCD(b, a % b)

\* the element of a one-element set: the operators below take their
\* operands and intermediate values through it, so that each is computed once
The(S) == CHOOSE r \in S : TRUE

Rat(n, d) ==
    The({The({[n |-> (s * x) \div g, d |-> (s * y) \div g] :
                 g \in {GCD(Abs(x), Abs(y))}, s \in {IF y < 0 THEN -1 ELSE 1}}) :
         x \in {n}, y \in {d}})

RInt(i) == [n |-> i, d |-> 1]
\* x \div g, or x itself where g is 0 (both arguments of the GCD were 0)
Cancel(x, g) == IF g = 0 THEN x ELSE x \div g
\* the sum over the least common denominator, which keeps the products small
RAdd(a, b) ==
    The({The({Rat(x.n * Cancel(y.d, g) + y.n * Cancel(x.d, g), Cancel(x.d, g) * y.d) :
                 g \in {GCD(x.d, y.d)}}) :
         x \in {a}, y \in {b}})
\* products and quotients cancel common factors before multiplying
RMul(a, b) ==
    The({The({Rat(Cancel(x.n, g) * Cancel(y.n, h), Cancel(x.d, h) * Cancel(y.d, g)) :
                 g \in {GCD(Abs(x.n), Abs(y.d))}, h \in {GCD(Abs(y.n), Abs(x.d))}}) :
         x \in {a}, y \in {b}})
RDiv(a, b) ==
    The({The({Rat(Cancel(x.n, g) * Cancel(y.d, h), Cancel(x.d, h) * Cancel(y.n, g)) :
                 g \in {GCD(Abs(x.n), Abs(y.n))}, h \in {GCD(Abs(x.d), Abs(y.d))}}) :
         x \in {a}, y \in {b}})
RLess(a, b) ==
    \E x \in {a}, y \in {b} : \E g \in {GCD(x.d, y.d)} :
        x.n * Cancel(y.d, g) < y.n * Cancel(x.d, g)
RLeq(a, b) ==
    \E x \in {a}, y \in {b} : \E g \in {GCD(x.d, y.d)} :
        x.n * Cancel(y.d, g) <= y.n * Cancel(x.d, g)

\* |actual - predicted| / |actual|, the relative error as the
\* specification defines it
RelativeError(predicted, actual) == Rat(Abs(actual - predicted), Abs(actual))

\* a float: a rational or NaN
NaN == [n |-> 0, d |-> 0]
IsNaN(x) == x.d = 0

RECURSIVE RSum(_)
RSum(s) == IF s = <<>> THEN RInt(0) ELSE RAdd(Head(s), RSum(Tail(s)))

\* s[-k:] of Python
LastK(s, k) == IF Len(s) <= k THEN s ELSE SubSeq(s, Len(s) - k + 1, Len(s))

\* ------------------------------------------------------------------------
\* The closed sets of the code
\* ------------------------------------------------------------------------
ModelTypes == <<"transformer", "lstm">>
Models == {"transformer", "lstm"}
Regimes == {"bull", "bear", "sideways", "volatile"}

DefaultPerformance ==
    [m \in Models |-> [errors |-> <<>>, weights |-> RInt(1)]]

DefaultStrategies ==
    [r \in Regimes |->
        CASE r = "bull" -> [model_preference |-> "transformer", confidence_boost |-> 100]
          [] r = "bear" -> [model_preference |-> "lstm", confidence_boost |-> 50]
          [] r = "sideways" -> [model_preference |-> "ensemble", confidence_boost |-> 0]
          [] OTHER -> [model_preference |-> "ensemble", confidence_boost |-> -100]]

\* ------------------------------------------------------------------------
\* BaseAgent
\* ------------------------------------------------------------------------
\* update_performance for actual # 0 (actual = 0 raises after the increment,
\* see Feedback): a prediction within 5% counts as successful
update_performance(md, actual, predicted) ==
    LET error_rate == Rat(Abs(actual - predicted), actual)
    IN  [predictions_made |-> md.predictions_made + 1,
         successful_predictions |->
            IF RLeq(error_rate, Rat(5, 100))
            THEN md.successful_predictions + 1
            ELSE md.successful_predictions]

\* ------------------------------------------------------------------------
\* EnsembleAgent
\* ------------------------------------------------------------------------
ensemble_method == "weighted_average"

\* the static prior of a model; 0.5 when no trained artifact exists
_get_model_confidence(model_type, trained) ==
    IF ~trained THEN 500
    ELSE IF model_type = "transformer" THEN 750
    ELSE IF model_type = "lstm" THEN 700
    ELSE 600

AnyNaN(ps) == \E i \in 1..Len(ps) : IsNaN(ps[i])

RECURSIVE IntSum(_)
IntSum(s) == IF s = <<>> THEN 0 ELSE Head(s) + IntSum(Tail(s))

\* np.mean of a nonempty list of floats
Mean(ps) == IF AnyNaN(ps) THEN NaN ELSE RDiv(RSum(ps), RInt(Len(ps)))

\* s with x put before the first entry that is greater
RECURSIVE Inserted(_, _)
Inserted(x, s) ==
    IF s = <<>> THEN <<x>>
    ELSE IF RLeq(x, Head(s)) THEN <<x>> \o s
    ELSE <<Head(s)>> \o Inserted(x, Tail(s))

\* np.sort of a list of floats that holds no NaN
RECURSIVE Sorted(_)
Sorted(ps) == IF ps = <<>> THEN <<>> ELSE Inserted(Head(ps), Sorted(Tail(ps)))

\* the lower of the two middle values taken for an even count
MedianLower(ps) ==
    IF AnyNaN(ps) THEN NaN
    ELSE The({s[(Len(s) + 1) \div 2] : s \in {Sorted(ps)}})

\* np.median: the middle value of the sorted list, the mean of the two
\* middle values for an even count, NaN when an entry is NaN
Median(ps) ==
    IF AnyNaN(ps) THEN NaN
    ELSE The({IF Len(s) % 2 = 1 THEN s[(Len(s) + 1) \div 2]
              ELSE Mean(<<s[Len(s) \div 2], s[Len(s) \div 2 + 1]>>) :
              s \in {Sorted(ps)}})

\* np.sum(predictions * (confidences / np.sum(confidences)))
RECURSIVE WeightedSum(_, _, _)
WeightedSum(ps, cs, total) ==
    IF ps = <<>> THEN RInt(0)
    ELSE RAdd(RMul(Head(ps), Rat(Head(cs), total)),
              WeightedSum(Tail(ps), Tail(cs), total))

\* lines 96-110: the combination under a given ensemble method
CombinedBy(method, predictions, confidences) ==
    IF method = "average" THEN Mean(predictions)
    ELSE IF method = "weighted_average"
         THEN IF IntSum(confidences) = 0 THEN Mean(predictions)
              ELSE IF AnyNaN(predictions) THEN NaN
              ELSE WeightedSum(predictions, confidences, IntSum(confidences))
    ELSE IF method = "voting" THEN Median(predictions)
    ELSE Mean(predictions)

_combine_predictions(predictions, confidences) ==
    CombinedBy(ensemble_method, predictions, confidences)

\* np.std of one or two floats (population standard deviation)
StdOf(ps) ==
    IF AnyNaN(ps) THEN NaN
    ELSE IF Len(ps) = 1 THEN RInt(0)
    ELSE LET diff == RAdd(ps[1], RMul(RInt(-1), ps[2]))
         IN  Rat(Abs(diff.n), 2 * diff.d)

\* mean_conf * max(0.5, 1 - std/(mean_conf + 1e-6)), in thousandths.  The
\* 1e-6 only keeps the division defined when every confidence is 0; its
\* effect is below a thousandth
_calculate_ensemble_confidence(confidences) ==
    IF confidences = <<>> THEN 0
    ELSE LET cs == [i \in 1..Len(confidences) |-> RInt(confidences[i])]
             mean_conf == Mean(cs)
             std == StdOf(cs)
             variance_penalty ==
                 IF mean_conf.n = 0 THEN RInt(1)
                 ELSE RAdd(RInt(1), RMul(RInt(-1), RDiv(std, mean_conf)))
             factor == IF RLess(Rat(1, 2), variance_penalty)
                       THEN variance_penalty ELSE Rat(1, 2)
             c == RMul(mean_conf, factor)
         IN  c.n \div c.d

\* ------------------------------------------------------------------------
\* AdaptiveLearningAgent
\* ------------------------------------------------------------------------
\* The enriched frame is held as the statistics _detect_market_regime takes
\* from it: row count, volatility (thousandths), last close, SMA20, SMA50
\* the trend rules tried before the volatility rule
_detect_market_regime_trend_first(data) ==
    IF data.rows < 50 THEN "sideways"
    ELSE IF data.price > data.sma_20 /\ data.sma_20 > data.sma_50 THEN "bull"
    ELSE IF data.price < data.sma_20 /\ data.sma_20 < data.sma_50 THEN "bear"
    ELSE IF data.volatility > 30 THEN "volatile"
    ELSE "sideways"

_detect_market_regime(data) ==
    IF data.rows < 50 THEN "sideways"
    ELSE IF data.volatility > 30 THEN "volatile"
    ELSE IF data.price > data.sma_20 /\ data.sma_20 > data.sma_50 THEN "bull"
    ELSE IF data.price < data.sma_20 /\ data.sma_20 < data.sma_50 THEN "bear"
    ELSE "sideways"

\* regime_strategies.get(regime, regime_strategies['sideways'])
StrategyFor(strategies, regime) ==
    IF regime \in DOMAIN strategies THEN strategies[regime]
    ELSE strategies["sideways"]

_calculate_adaptive_weights(perf) ==
    LET total_weight == RAdd(perf["transformer"].weights, perf["lstm"].weights)
    IN  IF RLess(RInt(0), total_weight)
        THEN [m \in Models |-> RDiv(perf[m].weights, total_weight)]
        ELSE [m \in Models |-> perf[m].weights]

\* the candidate weight taken from the mean of every stored error
learn_from_error_mean_of_all(perf, model_type, predicted, actual) ==
    IF model_type \notin DOMAIN perf THEN perf
    ELSE LET error == Rat(Abs(actual - predicted), actual)
             errors == LastK(Append(perf[model_type].errors, error), ErrorsCap)
             avg_error == Mean(errors)
             new_weight == RDiv(RInt(1), RAdd(RInt(1), avg_error))
             old_weight == perf[model_type].weights
             w == RAdd(RMul(Rat(1, 10), new_weight), RMul(Rat(9, 10), old_weight))
         IN  [perf EXCEPT ![model_type] = [errors |-> errors, weights |-> w]]

\* the error history truncated to its oldest entries
learn_from_error_keep_oldest(perf, model_type, predicted, actual) ==
    IF model_type \notin DOMAIN perf THEN perf
    ELSE LET error == Rat(Abs(actual - predicted), actual)
             appended == Append(perf[model_type].errors, error)
             errors == SubSeq(appended, 1, Min(Len(appended), ErrorsCap))
             recent_errors == LastK(errors, RecentN)
             avg_error == Mean(recent_errors)
             new_weight == RDiv(RInt(1), RAdd(RInt(1), avg_error))
             old_weight == perf[model_type].weights
             w == RAdd(RMul(Rat(1, 10), new_weight), RMul(Rat(9, 10), old_weight))
         IN  [perf EXCEPT ![model_type] = [errors |-> errors, weights |-> w]]

\* learn_from_error for actual # 0
learn_from_error(perf, model_type, predicted, actual) ==
    IF model_type \notin DOMAIN perf THEN perf
    ELSE LET error == Rat(Abs(actual - predicted), actual)
             errors == LastK(Append(perf[model_type].errors, error), ErrorsCap)
             recent_errors == LastK(errors, RecentN)
             avg_error == Mean(recent_errors)
             new_weight == RDiv(RInt(1), RAdd(RInt(1), avg_error))
             old_weight == perf[model_type].weights
             w == RAdd(RMul(Rat(1, 10), new_weight), RMul(Rat(9, 10), old_weight))
         IN  [perf EXCEPT ![model_type] = [errors |-> errors, weights |-> w]]

Clip(x, lo, hi) == IF x < lo THEN lo ELSE IF x > hi THEN hi ELSE x

\* update_strategy_performance for actual # 0
update_strategy_performance(strategies, regime, predicted, actual) ==
    IF regime \notin DOMAIN strategies THEN strategies
    ELSE LET error == Rat(Abs(actual - predicted), actual)
             b == strategies[regime].confidence_boost
             b2 == IF RLess(error, Rat(5, 100)) THEN b + 10
                   ELSE IF RLess(Rat(15, 100), error) THEN b - 10
                   ELSE b
         IN  [strategies EXCEPT ![regime].confidence_boost = Clip(b2, -200, 200)]

\* ------------------------------------------------------------------------
\* PredictionCoordinator
\* ------------------------------------------------------------------------
\* the clamp without its upper limit
ClampLowerOnly(x) == IF x > 0 THEN x ELSE 0

\* min(1.0, max(0.0, x)) on thousandths
Clamp01(x) ==
    LET m == IF x > 0 THEN x ELSE 0
    IN  IF m < 1000 THEN m ELSE 1000

\* min(1.0, max(0.0, x)) on a float: Python's max keeps its first argument
\* unless the second compares greater, so NaN clamps to 0.0
ClampFloat01(x) ==
    LET m == IF ~IsNaN(x) /\ RLess(RInt(0), x) THEN x ELSE RInt(0)
    IN  IF RLess(m, RInt(1)) THEN m ELSE RInt(1)

_calculate_trust_score(confidence, data_quality, uncertainty) ==
    LET normalized_uncertainty ==
            IF IsNaN(uncertainty) THEN NaN
            ELSE RDiv(RInt(1), RAdd(RInt(1), uncertainty))
        trust_score ==
            IF IsNaN(normalized_uncertainty) THEN NaN
            ELSE RAdd(RAdd(RMul(Rat(confidence, 1000), Rat(5, 10)),
                           RMul(Rat(data_quality, 1000), Rat(3, 10))),
                      RMul(normalized_uncertainty, Rat(2, 10)))
    IN  ClampFloat01(trust_score)

\* the gate with both comparisons strict
GateDecisionStrict(trust, min_conf) ==
    IF RLess(Rat(75, 100), trust) THEN "accept"
    ELSE IF RLess(Rat(min_conf, 1000), trust) THEN "caution"
    ELSE "reject"

\* lines 177-182: the three-way gate on the trust score
GateDecision(trust, min_conf) ==
    IF RLeq(Rat(75, 100), trust) THEN "accept"
    ELSE IF RLeq(Rat(min_conf, 1000), trust) THEN "caution"
    ELSE "reject"

_validate_prediction(prediction, confidence) ==
    IF ~IsNaN(prediction) /\ RLeq(prediction, RInt(0)) THEN FALSE
    ELSE IF IsNaN(prediction) THEN FALSE
    ELSE IF confidence < 500 THEN FALSE
    ELSE TRUE

\* a failed validation rejecting outright
DowngradeToReject(decision) == "reject"

\* lines 184-190: validation lowers a non-reject decision by one level
Downgrade(decision) == IF decision = "accept" THEN "caution" ELSE "reject"

_make_decision(prediction, confidence, data_quality, uncertainty, validate, min_conf) ==
    LET trust == _calculate_trust_score(confidence, data_quality, uncertainty)
        decision == GateDecision(trust, min_conf)
    IN  IF validate /\ decision # "reject"
           /\ ~_validate_prediction(prediction, confidence)
        THEN Downgrade(decision)
        ELSE decision

\* the text is keyed off the decision tier (the interpolated numbers are
\* left out)
_generate_recommendation(decision) ==
    IF decision = "accept" THEN "High confidence prediction. Recommended for use."
    ELSE IF decision = "caution" THEN "Moderate confidence prediction. Use with caution."
    ELSE "Low confidence prediction. Not recommended for use."

\* the average taken as the midpoint of the old average and the new value
_update_performance_midpoint(pm, result) ==
    LET n == pm.total_predictions + 1
    IN  [total_predictions |-> n,
         high_confidence_predictions |->
            pm.high_confidence_predictions + (IF result.decision = "accept" THEN 1 ELSE 0),
         validated_predictions |->
            pm.validated_predictions + (IF result.decision # "reject" THEN 1 ELSE 0),
         average_confidence |->
            RDiv(RAdd(pm.average_confidence, RInt(result.confidence)), RInt(2))]

_update_performance(pm, result) ==
    LET n == pm.total_predictions + 1
    IN  [total_predictions |-> n,
         high_confidence_predictions |->
            pm.high_confidence_predictions + (IF result.decision = "accept" THEN 1 ELSE 0),
         validated_predictions |->
            pm.validated_predictions + (IF result.decision # "reject" THEN 1 ELSE 0),
         average_confidence |->
            RDiv(RAdd(RMul(pm.average_confidence, RInt(n - 1)), RInt(result.confidence)),
                 RInt(n))]

\* the history truncated to its oldest entries
_log_decision_record_keep_oldest(history, result) ==
    LET record == [timestamp |-> result.timestamp,
                   symbol |-> result.symbol,
                   prediction |-> result.prediction,
                   confidence |-> result.confidence,
                   decision |-> result.decision,
                   recommendation |-> result.recommendation]
        h == Append(history, record)
    IN  IF Len(h) > HistoryCap THEN SubSeq(h, 1, HistoryCap) ELSE h

_log_decision_record(history, result) ==
    LET record == [timestamp |-> result.timestamp,
                   symbol |-> result.symbol,
                   prediction |-> result.prediction,
                   confidence |-> result.confidence,
                   decision |-> result.decision,
                   recommendation |-> result.recommendation]
    IN  LastK(Append(history, record), HistoryCap)

\* ------------------------------------------------------------------------
\* The learning-state store
\* ------------------------------------------------------------------------
\* save_learning_state lines 243-255: the state handed to json.dump
SavedState(perf, strategies) ==
    [model_performance |->
        [m \in Models |->
            [weights |-> perf[m].weights,
             recent_errors |-> LastK(perf[m].errors, RecentN)]],
     regime_strategies |-> strategies]

NoContent == SavedState(DefaultPerformance, DefaultStrategies)

\* A state file: absent, not parseable as JSON ("malformed"), or parseable
\* ("valid").  bad_entry names the model whose entry in a parseable file is
\* not an object ("none" when every entry is one)
AbsentFile == [status |-> "absent", content |-> NoContent, bad_entry |-> "none"]
MalformedFile == [status |-> "malformed", content |-> NoContent, bad_entry |-> "none"]

\* a state file left by an earlier process
StoredFile ==
    [status |-> "valid",
     bad_entry |-> "none",
     content |->
        [model_performance |->
            [m \in Models |->
                IF m = "transformer"
                THEN [recent_errors |-> <<Rat(1, 5)>>, weights |-> Rat(4, 5)]
                ELSE [recent_errors |-> <<>>, weights |-> RInt(1)]],
         regime_strategies |->
            [r \in Regimes |->
                [model_preference |-> DefaultStrategies[r].model_preference,
                 confidence_boost |->
                    CASE r = "bull" -> 900
                      [] r = "sideways" -> -700
                      [] OTHER -> DefaultStrategies[r].confidence_boost]]]]

\* the same file with the entry of 'lstm' replaced by a number
BrokenEntryFile == [StoredFile EXCEPT !.bad_entry = "lstm"]

\* the position of a model's entry in the file (the order save writes)
EntryIndex(m) == CHOOSE i \in 1..Len(ModelTypes) : ModelTypes[i] = m

\* load_learning_state returns True
LoadSucceeds(file) == file.status = "valid" /\ file.bad_entry = "none"

\* the entry of m is reached and restored before the restore loop raises
EntryRestored(file, m) ==
    /\ file.status = "valid"
    /\ \/ file.bad_entry = "none"
       \/ EntryIndex(m) < EntryIndex(file.bad_entry)

\* load_learning_state lines 266-273 on a fresh agent: a file that cannot be
\* opened or parsed leaves the constructor defaults; the entries of a parsed
\* file are restored one by one until one of them raises
LoadedPerformance(file) ==
    [m \in Models |->
        IF EntryRestored(file, m)
        THEN [errors |-> file.content.model_performance[m].recent_errors,
              weights |-> file.content.model_performance[m].weights]
        ELSE DefaultPerformance[m]]

\* line 276 is reached only when the restore loop did not raise
LoadedStrategies(file) ==
    IF LoadSucceeds(file) THEN file.content.regime_strategies
    ELSE DefaultStrategies

\* ------------------------------------------------------------------------
\* Workloads and the inputs the collaborators produce
\* ------------------------------------------------------------------------
\* "wide": one request over every input class; "deep": several requests over
\* few input classes; "threshold": one request, with the threshold set by
\* the constructor or by set_confidence_threshold()
Scenarios == {"wide", "deep", "threshold"}

Symbols == {"AAA", "BBB"}

\* the symbols predict() is asked about
PredictSymbols(scn) == IF scn = "wide" THEN Symbols ELSE {"AAA"}

Frame(rows, volatility, price, sma_20, sma_50) ==
    [rows |-> rows, volatility |-> volatility, price |-> price,
     sma_20 |-> sma_20, sma_50 |-> sma_50]

BullFrame == Frame(60, 10, 12, 11, 10)
BearFrame == Frame(60, 10, 9, 10, 11)
FlatFrame == Frame(60, 10, 10, 10, 10)
ShortFrame == Frame(10, 40, 12, 11, 10)
VolatileFrame == Frame(60, 40, 12, 11, 10)

\* what DataEnrichmentAgent.predict returns: the frame and its quality score
DataResults(scn) ==
    IF scn = "wide"
    THEN {[enriched_data |-> BullFrame, quality_score |-> 500],
          [enriched_data |-> BearFrame, quality_score |-> 1000],
          [enriched_data |-> FlatFrame, quality_score |-> 500],
          [enriched_data |-> ShortFrame, quality_score |-> 1000],
          [enriched_data |-> VolatileFrame, quality_score |-> 330],
          [enriched_data |-> VolatileFrame, quality_score |-> 1000]}
    ELSE IF scn = "threshold"
    THEN {[enriched_data |-> BullFrame, quality_score |-> 500],
          [enriched_data |-> ShortFrame, quality_score |-> 1000]}
    ELSE {[enriched_data |-> BullFrame, quality_score |-> 500]}

\* what predict_max_profit returns and whether load_latest_model finds an
\* artifact
BackendResults(scn, model_type) ==
    IF scn = "wide"
    THEN IF model_type = "transformer"
         THEN {[pred |-> RInt(10), trained |-> TRUE],
               [pred |-> NaN, trained |-> TRUE]}
         ELSE {[pred |-> RInt(12), trained |-> TRUE],
               [pred |-> RInt(-5), trained |-> FALSE]}
    ELSE IF model_type = "transformer"
         THEN {[pred |-> RInt(10), trained |-> TRUE]}
         ELSE {[pred |-> RInt(12), trained |-> TRUE]}

ValidateChoices(scn) == IF scn = "deep" THEN {TRUE} ELSE BOOLEAN

\* (predicted, actual) pairs of feedback: errors 0, 0.2, -1.1 and actual = 0
FeedbackPairs(scn) ==
    IF scn = "wide"
    THEN {<<100, 100>>, <<100, 125>>, <<1, -10>>, <<100, 0>>}
    ELSE {<<100, 100>>, <<1, -10>>}

\* the min_confidence the coordinator is constructed with
MinConfidences(scn) ==
    IF scn = "wide" THEN {0, 600}
    ELSE IF scn = "threshold" THEN {600, 900}
    ELSE {600}

\* the thresholds set_confidence_threshold() is called with
Thresholds == {-100, 0, 900, 1000, 1100}

StoredFiles(scn) == {AbsentFile, StoredFile}

\* ------------------------------------------------------------------------
\* State
\* ------------------------------------------------------------------------
VARIABLES
    scenario,             \* the workload explored in this run
    min_confidence,       \* PredictionCoordinator.min_confidence
    decision_history,     \* PredictionCoordinator.decision_history
    performance_metrics,  \* PredictionCoordinator.performance_metrics
    ens_metadata,         \* EnsembleAgent.metadata (the counters)
    model_weights,        \* EnsembleAgent.model_weights
    model_performance,    \* AdaptiveLearningAgent.model_performance
    regime_strategies,    \* AdaptiveLearningAgent.regime_strategies
    store,                \* the file model/adaptive_learning_state.json
    pc,                   \* where the predict() in progress stands
    req,                  \* the locals of the predict() in progress
    outcome,              \* how the last predict()/update_with_actual() ended
    clock,                \* predict() requests started; stamps the records
    stages,               \* stages the request in progress has completed
    invoked,              \* predict_max_profit calls of the request in progress
    failed,               \* those of them that raised
    all_decisions,        \* every decision made, with the regime detected,
                          \* the forecasts combined and the weights in force
    feedback_calls,       \* update_with_actual() calls made
    save_attempts,        \* save_learning_state() calls made
    snap,                 \* history and metrics when the request began
    learner_call,         \* the last call made on the learner itself
    threads,              \* the calls running concurrently on one coordinator
    function_call         \* the last call of a function made on its own

vars == <<scenario, min_confidence, decision_history, performance_metrics,
          ens_metadata, model_weights, model_performance, regime_strategies,
          store, pc, req, outcome, clock, stages, invoked, failed,
          all_decisions, feedback_calls, save_attempts, snap,
          learner_call, threads, function_call>>

coordVars == <<min_confidence, decision_history, performance_metrics>>
learnerVars == <<model_performance, regime_strategies>>
requestVars == <<pc, req, clock, stages, invoked, failed, snap>>

NoRequest ==
    [symbol |-> "", validate |-> FALSE, data_quality |-> 0,
     market_regime |-> "", confidence_adjustment |-> 0,
     adaptive_weights |-> [m \in Models |-> RInt(0)],
     i |-> 0, predictions |-> <<>>, confidences |-> <<>>,
     model_details |-> <<>>]

NoResult ==
    [symbol |-> "", prediction |-> RInt(0), confidence |-> 0,
     base_confidence |-> 0, confidence_adjustment |-> 0,
     uncertainty |-> RInt(0), data_quality |-> 0, market_regime |-> "",
     adaptive_weights |-> [m \in Models |-> RInt(0)],
     decision |-> "", num_models |-> 0, timestamp |-> 0,
     recommendation |-> "", trust_score |-> RInt(0), gate |-> "",
     validate |-> FALSE, threshold |-> 0]

NoArgs == [symbol |-> "", predicted |-> 0, actual |-> 0]

\* a call on the learner: the operation, its arguments, how it ended and
\* the learner as it stood before the call
NoPreviousCall ==
    [op |-> "none", target |-> "", predicted |-> 0, actual |-> 0,
     status |-> "none", weights |-> [m \in Models |-> RInt(1)]]

NoLearnerCall ==
    [op |-> "none", target |-> "", predicted |-> 0, actual |-> 0,
     status |-> "none", count |-> 0,
     prior |-> [model_performance |-> DefaultPerformance,
                regime_strategies |-> DefaultStrategies],
     prev |-> NoPreviousCall]

\* no function has been called on its own
NoCall == [op |-> "none"]

\* result: what predict() returned, with the trust score, the gate's
\* decision before validation and the threshold in force; args: the
\* arguments of update_with_actual()
NoOutcome ==
    [call |-> "none", status |-> "none", error |-> "", result |-> NoResult,
     args |-> NoArgs, save_failed |-> FALSE]

\* __init__ of the coordinator and of its agents, load_learning_state included
Init ==
    /\ scenario \in Scenarios
    /\ min_confidence \in MinConfidences(scenario)
    /\ store \in StoredFiles(scenario)
    /\ model_performance = LoadedPerformance(store)
    /\ regime_strategies = LoadedStrategies(store)
    /\ decision_history = <<>>
    /\ performance_metrics =
          [total_predictions |-> 0, high_confidence_predictions |-> 0,
           validated_predictions |-> 0, average_confidence |-> RInt(0)]
    /\ ens_metadata = [predictions_made |-> 0, successful_predictions |-> 0]
    /\ model_weights = <<>>
    /\ pc = "idle"
    /\ req = NoRequest
    /\ outcome = NoOutcome
    /\ clock = 0
    /\ stages = <<>>
    /\ invoked = [m \in Models |-> 0]
    /\ failed = [m \in Models |-> 0]
    /\ all_decisions = <<>>
    /\ feedback_calls = 0
    /\ save_attempts = 0
    /\ snap = [history |-> <<>>, metrics |-> performance_metrics]
    /\ learner_call = NoLearnerCall
    /\ function_call = NoCall
    /\ threads = <<>>

\* ------------------------------------------------------------------------
\* predict(symbol, validate)
\* ------------------------------------------------------------------------
RequestLimit == IF scenario = "deep" THEN MaxPredicts ELSE 1

\* lines 55-72: the request begins and calls the data agent
StartPredict ==
    /\ pc = "idle"
    /\ clock < RequestLimit
    /\ \E symbol \in PredictSymbols(scenario), validate \in ValidateChoices(scenario) :
          req' = [NoRequest EXCEPT !.symbol = symbol, !.validate = validate]
    /\ pc' = "data"
    /\ clock' = clock + 1
    /\ stages' = <<>>
    /\ invoked' = [m \in Models |-> 0]
    /\ failed' = [m \in Models |-> 0]
    /\ snap' = [history |-> decision_history, metrics |-> performance_metrics]
    /\ outcome' = [NoOutcome EXCEPT !.call = "predict", !.status = "running"]
    /\ UNCHANGED <<scenario, learner_call, threads, function_call, coordVars, ens_metadata, model_weights,
                   learnerVars, store, all_decisions, feedback_calls,
                   save_attempts>>

\* lines 72-92: the data agent returns; regime, strategy and weights are
\* taken from the learner and the weights handed to the ensemble agent
DataReturn ==
    /\ pc = "data"
    /\ \E d \in DataResults(scenario) :
          LET market_regime == _detect_market_regime(d.enriched_data)
              strategy == StrategyFor(regime_strategies, market_regime)
              adaptive_weights == _calculate_adaptive_weights(model_performance)
          IN  /\ req' = [req EXCEPT !.data_quality = d.quality_score,
                                    !.market_regime = market_regime,
                                    !.confidence_adjustment = strategy.confidence_boost,
                                    !.adaptive_weights = adaptive_weights,
                                    !.i = 1]
              /\ model_weights' = adaptive_weights
    /\ pc' = "backend"
    /\ stages' = stages \o <<"DATA_ENRICHED", "REGIME_DETECTED">>
    /\ UNCHANGED <<scenario, learner_call, threads, function_call, coordVars, ens_metadata, learnerVars, store,
                   outcome, clock, invoked, failed, all_decisions,
                   feedback_calls, save_attempts, snap>>

\* line 72: the data agent raises (create_features re-raises, for one); the
\* coordinator does not catch it
DataRaise ==
    /\ pc = "data"
    /\ pc' = "idle"
    /\ req' = NoRequest
    /\ outcome' = [outcome EXCEPT !.status = "raised", !.error = "DataError"]
    /\ UNCHANGED <<scenario, learner_call, threads, function_call, coordVars, ens_metadata, model_weights,
                   learnerVars, store, clock, stages, invoked, failed,
                   all_decisions, feedback_calls, save_attempts, snap>>

\* lines 96-146 of the coordinator, after EnsembleAgent.predict lines 67-89
ResultOf(r, predictions, confidences) ==
    LET prediction == _combine_predictions(predictions, confidences)
        base_confidence == _calculate_ensemble_confidence(confidences)
        uncertainty == StdOf(predictions)
        confidence == Clamp01(base_confidence + r.confidence_adjustment)
        decision == _make_decision(prediction, confidence, r.data_quality,
                                   uncertainty, r.validate, min_confidence)
        trust == _calculate_trust_score(confidence, r.data_quality, uncertainty)
    IN  [symbol |-> r.symbol,
         prediction |-> prediction,
         confidence |-> confidence,
         base_confidence |-> base_confidence,
         confidence_adjustment |-> r.confidence_adjustment,
         uncertainty |-> uncertainty,
         data_quality |-> r.data_quality,
         market_regime |-> r.market_regime,
         adaptive_weights |-> r.adaptive_weights,
         decision |-> decision,
         num_models |-> Len(predictions),
         timestamp |-> clock,
         recommendation |-> _generate_recommendation(decision),
         trust_score |-> trust,
         gate |-> GateDecision(trust, min_confidence),
         validate |-> r.validate,
         threshold |-> min_confidence]

\* the request failing as soon as one model is missing
AfterBackendsAllRequired(predictions, confidences, model_details) ==
    IF Len(predictions) < Len(ModelTypes)
    THEN /\ outcome' = [outcome EXCEPT !.status = "raised",
                                       !.error = "NoPrediction"]
         /\ UNCHANGED <<decision_history, performance_metrics,
                        all_decisions, stages>>
    ELSE \E result \in {ResultOf(req, predictions, confidences)} :
             /\ performance_metrics' = _update_performance(performance_metrics, result)
             /\ decision_history' = _log_decision_record(decision_history, result)
             /\ all_decisions' = Append(all_decisions,
                    [timestamp |-> result.timestamp,
                     symbol |-> result.symbol,
                     decision |-> result.decision,
                     confidence |-> result.confidence,
                     market_regime |-> result.market_regime,
                     prediction |-> result.prediction,
                     predictions |-> predictions,
                     confidences |-> confidences,
                     model_details |-> model_details,
                     adaptive_weights |-> result.adaptive_weights])
             /\ stages' = stages \o <<"ENSEMBLE_SCORED", "TRUST_GATED">>
             /\ outcome' = [outcome EXCEPT !.status = "returned",
                                           !.result = result]

\* EnsembleAgent.predict lines 64-65 and what follows the loop
AfterBackends(predictions, confidences, model_details) ==
    IF predictions = <<>>
    THEN /\ outcome' = [outcome EXCEPT !.status = "raised",
                                       !.error = "NoPrediction"]
         /\ UNCHANGED <<decision_history, performance_metrics,
                        all_decisions, stages>>
    ELSE \E result \in {ResultOf(req, predictions, confidences)} :
             /\ performance_metrics' = _update_performance(performance_metrics, result)
             /\ decision_history' = _log_decision_record(decision_history, result)
             /\ all_decisions' = Append(all_decisions,
                    [timestamp |-> result.timestamp,
                     symbol |-> result.symbol,
                     decision |-> result.decision,
                     confidence |-> result.confidence,
                     market_regime |-> result.market_regime,
                     prediction |-> result.prediction,
                     predictions |-> predictions,
                     confidences |-> confidences,
                     model_details |-> model_details,
                     adaptive_weights |-> result.adaptive_weights])
             /\ stages' = stages \o <<"ENSEMBLE_SCORED", "TRUST_GATED">>
             /\ outcome' = [outcome EXCEPT !.status = "returned",
                                           !.result = result]

\* one turn of the loop of EnsembleAgent.predict (lines 40-62); after the
\* last model the request runs to its end
BackendStep(predictions, confidences, model_details) ==
    IF req.i < Len(ModelTypes)
    THEN /\ req' = [req EXCEPT !.i = req.i + 1,
                               !.predictions = predictions,
                               !.confidences = confidences,
                               !.model_details = model_details]
         /\ pc' = "backend"
         /\ UNCHANGED <<decision_history, performance_metrics, outcome,
                        all_decisions, stages>>
    ELSE /\ req' = NoRequest
         /\ pc' = "idle"
         /\ AfterBackends(predictions, confidences, model_details)

\* predict_max_profit returns for the model in turn
BackendReturn ==
    /\ pc = "backend"
    /\ LET model_type == ModelTypes[req.i]
       IN  /\ invoked' = [invoked EXCEPT ![model_type] = @ + 1]
           /\ \E b \in BackendResults(scenario, model_type) :
                 BackendStep(Append(req.predictions, b.pred),
                             Append(req.confidences,
                                    _get_model_confidence(model_type, b.trained)),
                             Append(req.model_details, model_type))
    /\ UNCHANGED <<scenario, learner_call, threads, function_call, min_confidence, ens_metadata, model_weights,
                   learnerVars, store, clock, failed, feedback_calls,
                   save_attempts, snap>>

\* predict_max_profit raises for the model in turn: the model is skipped
BackendRaise ==
    /\ pc = "backend"
    /\ invoked' = [invoked EXCEPT ![ModelTypes[req.i]] = @ + 1]
    /\ failed' = [failed EXCEPT ![ModelTypes[req.i]] = @ + 1]
    /\ BackendStep(req.predictions, req.confidences, req.model_details)
    /\ UNCHANGED <<scenario, learner_call, threads, function_call, min_confidence, ens_metadata, model_weights,
                   learnerVars, store, clock, feedback_calls, save_attempts,
                   snap>>

\* ------------------------------------------------------------------------
\* update_with_actual(symbol, predicted, actual)
\* ------------------------------------------------------------------------
\* lines 316-327: both models learn the same error; the strategy of the
\* regime read from the last history record is updated when its symbol
\* matches.  The record holds no 'market_regime' key, so the read yields
\* its default
LastRegime(last_decision) ==
    IF "market_regime" \in DOMAIN last_decision
    THEN last_decision.market_regime
    ELSE "sideways"

LearnedPerformance(perf, predicted, actual) ==
    learn_from_error(learn_from_error(perf, "transformer", predicted, actual),
                     "lstm", predicted, actual)

UpdatedStrategies(strategies, history, symbol, predicted, actual) ==
    IF history # <<>> /\ history[Len(history)].symbol = symbol
    THEN update_strategy_performance(strategies,
             LastRegime(history[Len(history)]), predicted, actual)
    ELSE strategies

\* line 330
SaveDue == performance_metrics.total_predictions % SavePeriod = 0

FeedbackLimit == IF scenario = "deep" THEN MaxFeedback ELSE 1

Feedback ==
    /\ pc = "idle"
    /\ feedback_calls < FeedbackLimit
    /\ feedback_calls' = feedback_calls + 1
    /\ \E symbol \in Symbols, pair \in FeedbackPairs(scenario) :
          LET predicted == pair[1]
              actual == pair[2]
              called == [NoOutcome EXCEPT
                            !.call = "feedback",
                            !.args = [symbol |-> symbol, predicted |-> predicted,
                                      actual |-> actual]]
          IN  IF actual = 0
              THEN \* base_agent.py line 69 divides by zero after the increment
                   /\ ens_metadata' = [ens_metadata EXCEPT !.predictions_made = @ + 1]
                   /\ outcome' = [called EXCEPT !.status = "raised",
                                                !.error = "ZeroDivisionError"]
                   /\ UNCHANGED <<learnerVars, store, save_attempts>>
              ELSE /\ ens_metadata' = update_performance(ens_metadata, actual, predicted)
                   /\ model_performance' =
                         LearnedPerformance(model_performance, predicted, actual)
                   /\ regime_strategies' =
                         UpdatedStrategies(regime_strategies, decision_history,
                                           symbol, predicted, actual)
                   /\ IF SaveDue
                      THEN \* save_learning_state: json.dump meets the datetime
                           \* of metadata['created_at'] and raises with the
                           \* file opened for writing
                           /\ save_attempts' = save_attempts + 1
                           /\ store' = MalformedFile
                           /\ outcome' = [called EXCEPT !.status = "raised",
                                                        !.error = "TypeError",
                                                        !.save_failed = TRUE]
                      ELSE /\ outcome' = [called EXCEPT !.status = "returned"]
                           /\ UNCHANGED <<store, save_attempts>>
    /\ UNCHANGED <<scenario, learner_call, threads, function_call, coordVars, model_weights, requestVars,
                   all_decisions>>

\* ------------------------------------------------------------------------
\* set_confidence_threshold(threshold)
\* ------------------------------------------------------------------------
\* lines 365-371: a threshold within [0, 1] replaces min_confidence, any
\* other raises ValueError
SetConfidenceThreshold ==
    /\ scenario = "threshold"
    /\ pc = "idle"
    /\ \E threshold \in Thresholds :
          IF 0 <= threshold /\ threshold <= 1000
          THEN /\ min_confidence' = threshold
               /\ outcome' = [NoOutcome EXCEPT !.call = "set_confidence_threshold",
                                               !.status = "returned"]
          ELSE /\ outcome' = [NoOutcome EXCEPT !.call = "set_confidence_threshold",
                                               !.status = "raised",
                                               !.error = "ValueError"]
               /\ UNCHANGED min_confidence
    /\ UNCHANGED <<scenario, learner_call, threads, function_call, decision_history,
                   performance_metrics, ens_metadata, model_weights, learnerVars,
                   store, requestVars, all_decisions, feedback_calls,
                   save_attempts>>

Next ==
    \/ StartPredict
    \/ DataReturn
    \/ DataRaise
    \/ BackendReturn
    \/ BackendRaise
    \/ Feedback
    \/ SetConfidenceThreshold

Spec == Init /\ [][Next]_vars

\* ------------------------------------------------------------------------
\* The learner called on its own: learn_from_error,
\* update_strategy_performance, save_learning_state and the construction of
\* a new agent followed by load_learning_state
\* ------------------------------------------------------------------------
\* "errors": calls of learn_from_error; "strategies": calls of
\* update_strategy_performance; both with saves and restarts
LearnerScenarios == {"errors", "strategies"}

\* the identifiers callers pass: the two models and one the table lacks
ModelIds == Models \cup {"gru"}

\* the labels callers pass: regimes of the table and one it lacks
RegimeLabels == {"bull", "sideways", "crash"}

\* (predicted, actual): relative errors 0, 0.2, 1.1 with a negative actual,
\* and actual = 0
ErrorPairs == {<<100, 100>>, <<100, 125>>, <<1, -10>>, <<100, 0>>}

\* relative errors 0, exactly 0.05, exactly 0.15, 0.2, 1.1 with a negative
\* actual, and actual = 0
StrategyPairs ==
    {<<100, 100>>, <<95, 100>>, <<85, 100>>, <<100, 125>>, <<1, -10>>, <<100, 0>>}

LearnerFiles(scn) ==
    IF scn = "errors"
    THEN {AbsentFile, MalformedFile, StoredFile, BrokenEntryFile}
    ELSE {AbsentFile}

\* AdaptiveLearningAgent() followed by load_learning_state(), as the
\* coordinator's constructor does (lines 39-42)
LearnerInit ==
    /\ scenario \in LearnerScenarios
    /\ store \in LearnerFiles(scenario)
    /\ model_performance = LoadedPerformance(store)
    /\ regime_strategies = LoadedStrategies(store)
    /\ learner_call = [NoLearnerCall EXCEPT !.op = "load", !.status = "returned"]
    /\ function_call = NoCall
    /\ min_confidence = 600
    /\ decision_history = <<>>
    /\ performance_metrics =
          [total_predictions |-> 0, high_confidence_predictions |-> 0,
           validated_predictions |-> 0, average_confidence |-> RInt(0)]
    /\ ens_metadata = [predictions_made |-> 0, successful_predictions |-> 0]
    /\ model_weights = <<>>
    /\ pc = "idle"
    /\ req = NoRequest
    /\ outcome = NoOutcome
    /\ clock = 0
    /\ stages = <<>>
    /\ invoked = [m \in Models |-> 0]
    /\ failed = [m \in Models |-> 0]
    /\ all_decisions = <<>>
    /\ feedback_calls = 0
    /\ save_attempts = 0
    /\ snap = [history |-> <<>>, metrics |-> performance_metrics]
    /\ threads = <<>>

\* what the learner spec leaves alone
notLearnerVars ==
    <<scenario, min_confidence, decision_history, performance_metrics,
      ens_metadata, model_weights, pc, req, outcome, clock, stages, invoked,
      failed, all_decisions, feedback_calls, save_attempts, snap, threads,
      function_call>>

\* the record of a call being made now
Calling(op, target, predicted, actual, status) ==
    [op |-> op, target |-> target, predicted |-> predicted, actual |-> actual,
     status |-> status, count |-> learner_call.count + 1,
     prior |-> [model_performance |-> model_performance,
                regime_strategies |-> regime_strategies],
     prev |-> [op |-> learner_call.op, target |-> learner_call.target,
               predicted |-> learner_call.predicted,
               actual |-> learner_call.actual,
               status |-> learner_call.status,
               weights |-> [m \in Models |->
                               learner_call.prior.model_performance[m].weights]]]

\* learn_from_error(model_type, predicted, actual): an unknown model returns
\* at line 98; actual = 0 raises ZeroDivisionError at line 101, before
\* anything is stored
LearnFromError ==
    /\ scenario = "errors"
    /\ learner_call.count < MaxLearnerCalls
    /\ \E model_type \in ModelIds, pair \in ErrorPairs :
          LET predicted == pair[1]
              actual == pair[2]
          IN  IF model_type \in Models /\ actual = 0
              THEN /\ learner_call' = Calling("learn_from_error", model_type,
                                              predicted, actual, "raised")
                   /\ UNCHANGED model_performance
              ELSE /\ learner_call' = Calling("learn_from_error", model_type,
                                              predicted, actual, "returned")
                   /\ model_performance' =
                         learn_from_error(model_performance, model_type,
                                          predicted, actual)
    /\ UNCHANGED <<regime_strategies, store, notLearnerVars>>

\* update_strategy_performance(regime, predicted, actual): an unknown regime
\* returns at line 209; actual = 0 raises ZeroDivisionError at line 211
UpdateStrategyPerformance ==
    /\ scenario = "strategies"
    /\ learner_call.count < MaxLearnerCalls
    /\ \E regime \in RegimeLabels, pair \in StrategyPairs :
          LET predicted == pair[1]
              actual == pair[2]
          IN  IF regime \in Regimes /\ actual = 0
              THEN /\ learner_call' = Calling("update_strategy_performance",
                                              regime, predicted, actual, "raised")
                   /\ UNCHANGED regime_strategies
              ELSE /\ learner_call' = Calling("update_strategy_performance",
                                              regime, predicted, actual, "returned")
                   /\ regime_strategies' =
                         update_strategy_performance(regime_strategies, regime,
                                                     predicted, actual)
    /\ UNCHANGED <<model_performance, store, notLearnerVars>>

\* save_learning_state(): the file is opened for writing and json.dump
\* raises TypeError on metadata['created_at'], a datetime, leaving a
\* truncated document
SaveLearningState ==
    /\ learner_call.count < MaxLearnerCalls
    /\ learner_call' = Calling("save", "", 0, 0, "raised")
    /\ store' = MalformedFile
    /\ UNCHANGED <<model_performance, regime_strategies, notLearnerVars>>

\* a new agent is constructed and load_learning_state() called on it; the
\* call catches every exception and returns
LoadLearningState ==
    /\ learner_call.count < MaxLearnerCalls
    /\ learner_call' = Calling("load", "", 0, 0, "returned")
    /\ model_performance' = LoadedPerformance(store)
    /\ regime_strategies' = LoadedStrategies(store)
    /\ UNCHANGED <<store, notLearnerVars>>

LearnerNext ==
    \/ LearnFromError
    \/ UpdateStrategyPerformance
    \/ SaveLearningState
    \/ LoadLearningState

LearnerSpec == LearnerInit /\ [][LearnerNext]_vars

\* ------------------------------------------------------------------------
\* predict() and update_with_actual() called from several threads on one
\* coordinator (prediction_service.py creates the coordinator at module
\* level and main.py runs prediction_executor in a ThreadPoolExecutor).
\* The code takes no lock: every read and every write of the shared
\* dictionaries and lists is a step of its own, and the threads' steps
\* interleave freely
\* ------------------------------------------------------------------------
\* what the threads run, and whether the coordinator is new ("cold") or has
\* served ErrorsCap feedback calls and then HistoryCap requests ("warm")
ConcKinds == {"predicts", "feedbacks", "mixed"}
ConcScenarios == ConcKinds \X {"cold", "warm"}

Threads == 1..MaxThreads

KindOf(scn, t) ==
    IF scn[1] = "predicts" THEN "predict"
    ELSE IF scn[1] = "feedbacks" THEN "feedback"
    ELSE IF t = 1 THEN "predict" ELSE "feedback"

\* the frames the data agent returns to the threads
ConcDataResults ==
    {[enriched_data |-> BullFrame, quality_score |-> 1000],
     [enriched_data |-> VolatileFrame, quality_score |-> 330]}

\* the forecasts the two backends return to every thread
ConcPredictions == <<RInt(10), RInt(12)>>
ConcConfidences ==
    <<_get_model_confidence("transformer", TRUE), _get_model_confidence("lstm", TRUE)>>

\* (predicted, actual) of the threads' feedback: errors 0 and 0.2
ConcFeedbackPairs == {<<100, 100>>, <<100, 125>>}

\* lines 287-294: the record _log_decision_record appends
DecisionRecord(result) ==
    [timestamp |-> result.timestamp,
     symbol |-> result.symbol,
     prediction |-> result.prediction,
     confidence |-> result.confidence,
     decision |-> result.decision,
     recommendation |-> result.recommendation]

\* the learner, the tracker, the metrics and the history of a warm
\* coordinator: ErrorsCap calls update_with_actual('AAA', 100, 100), then
\* HistoryCap requests for 'AAA'
\* an error of 0 leaves a weight of 1 at 0.1 * 1 / (1 + 0) + 0.9 * 1 = 1
PerformanceAfter(k) ==
    [m \in Models |->
        [errors |-> [i \in 1..Min(k, ErrorsCap) |-> RInt(0)], weights |-> RInt(1)]]

RECURSIVE TrackerAfter(_)
TrackerAfter(k) ==
    IF k = 0 THEN [predictions_made |-> 0, successful_predictions |-> 0]
    ELSE update_performance(TrackerAfter(k - 1), 100, 100)

EarlierResult(i) ==
    [ResultOf([NoRequest EXCEPT
                  !.symbol = "AAA", !.validate = TRUE, !.data_quality = 1000,
                  !.market_regime = "bull",
                  !.confidence_adjustment = DefaultStrategies["bull"].confidence_boost,
                  !.adaptive_weights =
                      _calculate_adaptive_weights(PerformanceAfter(ErrorsCap))],
              ConcPredictions, ConcConfidences)
        EXCEPT !.timestamp = i]

RECURSIVE MetricsAfter(_)
MetricsAfter(k) ==
    IF k = 0
    THEN [total_predictions |-> 0, high_confidence_predictions |-> 0,
          validated_predictions |-> 0, average_confidence |-> RInt(0)]
    ELSE _update_performance(MetricsAfter(k - 1), EarlierResult(k))

RECURSIVE HistoryAfter(_)
HistoryAfter(k) ==
    IF k = 0 THEN <<>>
    ELSE _log_decision_record(HistoryAfter(k - 1), EarlierResult(k))

ConcStartPerformance(scn) ==
    IF scn[2] = "warm" THEN PerformanceAfter(ErrorsCap) ELSE DefaultPerformance
ConcStartMetrics(scn) ==
    IF scn[2] = "warm" THEN MetricsAfter(HistoryCap) ELSE MetricsAfter(0)
ConcStartHistory(scn) ==
    IF scn[2] = "warm" THEN HistoryAfter(HistoryCap) ELSE <<>>

\* the locals of one running call
NoThread ==
    [kind |-> "", pc |-> "start", status |-> "running",
     symbol |-> "", predicted |-> 0, actual |-> 0,
     data_quality |-> 0, market_regime |-> "", confidence_adjustment |-> 0,
     weights |-> [m \in Models |-> RInt(0)],
     adaptive_weights |-> [m \in Models |-> RInt(0)],
     seen |-> {}, result |-> NoResult,
     k |-> 0, n |-> 0, delta |-> 0,
     tmp_int |-> 0, tmp_rat |-> RInt(0), tmp_seq |-> <<>>,
     new_weight |-> RInt(0)]

\* the raw weights of the table
WeightTable(perf) == [m \in Models |-> perf[m].weights]

ConcInit ==
    /\ scenario \in ConcScenarios
    /\ min_confidence = 600
    /\ clock = 0
    /\ store = IF scenario[2] = "warm" THEN MalformedFile ELSE AbsentFile
    /\ model_performance = ConcStartPerformance(scenario)
    /\ regime_strategies = DefaultStrategies
    /\ ens_metadata =
          IF scenario[2] = "warm" THEN TrackerAfter(ErrorsCap) ELSE TrackerAfter(0)
    /\ decision_history = ConcStartHistory(scenario)
    /\ performance_metrics = ConcStartMetrics(scenario)
    /\ model_weights =
          IF scenario[2] = "warm"
          THEN _calculate_adaptive_weights(model_performance) ELSE <<>>
    /\ threads = [t \in Threads |-> [NoThread EXCEPT !.kind = KindOf(scenario, t)]]
    /\ pc = "idle"
    /\ req = NoRequest
    /\ outcome = NoOutcome
    /\ stages = <<>>
    /\ invoked = [m \in Models |-> 0]
    /\ failed = [m \in Models |-> 0]
    /\ all_decisions = <<>>
    /\ feedback_calls = 0
    /\ save_attempts = 0
    /\ snap = [history |-> <<>>, metrics |-> performance_metrics]
    /\ learner_call = NoLearnerCall
    /\ function_call = NoCall

\* what no thread touches
notConcVars ==
    <<scenario, min_confidence, pc, req, outcome, clock, stages, invoked,
      failed, all_decisions, feedback_calls, save_attempts, snap, learner_call,
      function_call>>

At(t, kind, where) == threads[t].kind = kind /\ threads[t].pc = where

\* thread t goes on with its locals changed
Goes(t, rec) == threads' = [threads EXCEPT ![t] = rec]

\* predict() lines 72-86 in thread t: the data agent returns, the regime is
\* detected and its strategy read
PredictBegin ==
    \E t \in Threads :
        /\ At(t, "predict", "start")
        /\ \E d \in ConcDataResults :
              LET market_regime == _detect_market_regime(d.enriched_data)
                  strategy == StrategyFor(regime_strategies, market_regime)
              IN  Goes(t, [threads[t] EXCEPT
                              !.pc = "w1",
                              !.symbol = "AAA",
                              !.data_quality = d.quality_score,
                              !.market_regime = market_regime,
                              !.confidence_adjustment = strategy.confidence_boost,
                              !.seen = {WeightTable(model_performance)}])
        /\ UNCHANGED <<coordVars, ens_metadata, model_weights, learnerVars,
                       store, notConcVars>>

\* the result predict() builds from the thread's locals (lines 96-138)
ThreadResult(t, adaptive_weights) ==
    [ResultOf([NoRequest EXCEPT
                  !.symbol = threads[t].symbol, !.validate = TRUE,
                  !.data_quality = threads[t].data_quality,
                  !.market_regime = threads[t].market_regime,
                  !.confidence_adjustment = threads[t].confidence_adjustment,
                  !.adaptive_weights = adaptive_weights],
              ConcPredictions, ConcConfidences)
        EXCEPT !.timestamp = 1000 + t]

\* _calculate_adaptive_weights lines 144-153 in thread t: one turn of the
\* loop reads one model's weight; after the last turn the weights are
\* normalized, handed to the ensemble agent (line 92) and the backends'
\* forecasts combined
SnapshotRead ==
    \E t \in Threads :
        \/ /\ At(t, "predict", "w1")
           /\ Goes(t, [threads[t] EXCEPT
                          !.pc = "w2",
                          !.weights["transformer"] =
                              model_performance["transformer"].weights])
           /\ UNCHANGED model_weights
        \/ /\ At(t, "predict", "w2")
           /\ LET weights == [threads[t].weights EXCEPT
                                 !["lstm"] = model_performance["lstm"].weights]
                  adaptive_weights ==
                      _calculate_adaptive_weights(
                          [m \in Models |-> [errors |-> <<>>, weights |-> weights[m]]])
              IN  /\ Goes(t, [threads[t] EXCEPT
                                 !.pc = "m1",
                                 !.weights = weights,
                                 !.adaptive_weights = adaptive_weights,
                                 !.result = ThreadResult(t, adaptive_weights)])
                  /\ model_weights' = adaptive_weights
        /\ UNCHANGED <<coordVars, ens_metadata, learnerVars, store, notConcVars>>

\* where _update_performance goes after the counter at hand
AfterTotal(decision) ==
    IF decision = "accept" THEN "m3"
    ELSE IF decision # "reject" THEN "m5" ELSE "m7"

\* _update_performance lines 269-283 in thread t: each += reads the entry
\* and then writes it
MetricsStep ==
    \E t \in Threads :
        LET th == threads[t]
            pm == performance_metrics
        IN  /\ th.kind = "predict"
            /\ \/ /\ th.pc = "m1"
                  /\ Goes(t, [th EXCEPT !.pc = "m2", !.tmp_int = pm.total_predictions])
                  /\ UNCHANGED performance_metrics
               \/ /\ th.pc = "m2"
                  /\ performance_metrics' =
                        [pm EXCEPT !.total_predictions = th.tmp_int + 1]
                  /\ Goes(t, [th EXCEPT !.pc = AfterTotal(th.result.decision),
                                        !.tmp_int = 0])
               \/ /\ th.pc = "m3"
                  /\ Goes(t, [th EXCEPT !.pc = "m4",
                                        !.tmp_int = pm.high_confidence_predictions])
                  /\ UNCHANGED performance_metrics
               \/ /\ th.pc = "m4"
                  /\ performance_metrics' =
                        [pm EXCEPT !.high_confidence_predictions = th.tmp_int + 1]
                  /\ Goes(t, [th EXCEPT !.pc = "m5", !.tmp_int = 0])
               \/ /\ th.pc = "m5"
                  /\ Goes(t, [th EXCEPT !.pc = "m6",
                                        !.tmp_int = pm.validated_predictions])
                  /\ UNCHANGED performance_metrics
               \/ /\ th.pc = "m6"
                  /\ performance_metrics' =
                        [pm EXCEPT !.validated_predictions = th.tmp_int + 1]
                  /\ Goes(t, [th EXCEPT !.pc = "m7", !.tmp_int = 0])
               \/ /\ th.pc = "m7"
                  /\ Goes(t, [th EXCEPT !.pc = "m8", !.n = pm.total_predictions])
                  /\ UNCHANGED performance_metrics
               \/ /\ th.pc = "m8"
                  /\ Goes(t, [th EXCEPT !.pc = "m9", !.tmp_rat = pm.average_confidence])
                  /\ UNCHANGED performance_metrics
               \/ /\ th.pc = "m9"
                  /\ performance_metrics' =
                        [pm EXCEPT !.average_confidence =
                            RDiv(RAdd(RMul(th.tmp_rat, RInt(th.n - 1)),
                                      RInt(th.result.confidence)),
                                 RInt(th.n))]
                  /\ Goes(t, [th EXCEPT !.pc = "h1", !.n = 0, !.tmp_rat = RInt(0)])
            /\ UNCHANGED <<min_confidence, decision_history, ens_metadata,
                           model_weights, learnerVars, store, notConcVars>>

\* _log_decision_record lines 296-300 in thread t: the append, the length
\* test, the slice and the assignment of the slice
HistoryStep ==
    \E t \in Threads :
        LET th == threads[t]
        IN  /\ th.kind = "predict"
            /\ \/ /\ th.pc = "h1"
                  /\ decision_history' =
                        Append(decision_history, DecisionRecord(th.result))
                  /\ Goes(t, [th EXCEPT !.pc = "h2"])
               \/ /\ th.pc = "h2"
                  /\ IF Len(decision_history) > HistoryCap
                     THEN Goes(t, [th EXCEPT !.pc = "h3"])
                     ELSE Goes(t, [th EXCEPT !.pc = "done", !.status = "returned"])
                  /\ UNCHANGED decision_history
               \/ /\ th.pc = "h3"
                  /\ Goes(t, [th EXCEPT !.pc = "h4",
                                        !.tmp_seq = LastK(decision_history, HistoryCap)])
                  /\ UNCHANGED decision_history
               \/ /\ th.pc = "h4"
                  /\ decision_history' = th.tmp_seq
                  /\ Goes(t, [th EXCEPT !.pc = "done", !.status = "returned",
                                        !.tmp_seq = <<>>])
            /\ UNCHANGED <<min_confidence, performance_metrics, ens_metadata,
                           model_weights, learnerVars, store, notConcVars>>

\* update_with_actual is called in thread t
FeedbackBegin ==
    \E t \in Threads :
        /\ At(t, "feedback", "start")
        /\ \E pair \in ConcFeedbackPairs :
              Goes(t, [threads[t] EXCEPT !.pc = "e1", !.symbol = "AAA",
                                         !.predicted = pair[1],
                                         !.actual = pair[2]])
        /\ UNCHANGED <<coordVars, ens_metadata, model_weights, learnerVars,
                       store, notConcVars>>

\* the error of the thread's pair as lines 69, 101 and 211 compute it
ThreadError(th) == Rat(Abs(th.actual - th.predicted), th.actual)

\* BaseAgent.update_performance lines 66-71 in thread t
TrackerStep ==
    \E t \in Threads :
        LET th == threads[t]
        IN  /\ th.kind = "feedback"
            /\ \/ /\ th.pc = "e1"
                  /\ Goes(t, [th EXCEPT !.pc = "e2",
                                        !.tmp_int = ens_metadata.predictions_made])
                  /\ UNCHANGED ens_metadata
               \/ /\ th.pc = "e2"
                  /\ ens_metadata' =
                        [ens_metadata EXCEPT !.predictions_made = th.tmp_int + 1]
                  /\ Goes(t, [th EXCEPT
                                  !.pc = IF RLeq(ThreadError(th), Rat(5, 100))
                                         THEN "e3" ELSE "l1",
                                  !.k = 1, !.tmp_int = 0])
               \/ /\ th.pc = "e3"
                  /\ Goes(t, [th EXCEPT !.pc = "e4",
                                        !.tmp_int = ens_metadata.successful_predictions])
                  /\ UNCHANGED ens_metadata
               \/ /\ th.pc = "e4"
                  /\ ens_metadata' =
                        [ens_metadata EXCEPT !.successful_predictions = th.tmp_int + 1]
                  /\ Goes(t, [th EXCEPT !.pc = "l1", !.tmp_int = 0])
            /\ UNCHANGED <<coordVars, model_weights, learnerVars, store,
                           notConcVars>>

\* a thread between the start of its request and the end of its snapshot
\* sees the table a writer leaves
Seeing(t, table) ==
    IF threads[t].kind = "predict" /\ threads[t].pc \in {"w1", "w2"}
    THEN [threads[t] EXCEPT !.seen = @ \cup {table}]
    ELSE threads[t]

\* learn_from_error lines 104-123 in thread t for the model in turn: the
\* append, the length test, the slice and its assignment, the read of the
\* recent errors, the read of the old weight and the write of the new one
ErrorStep ==
    \E t \in Threads :
        LET th == threads[t]
            m == ModelTypes[th.k]
            perf == model_performance
        IN  /\ th.kind = "feedback"
            /\ th.pc \in {"l1", "l2", "l3", "l4", "l5", "l6", "l7"}
            /\ \/ /\ th.pc = "l1"
                  /\ model_performance' =
                        [perf EXCEPT ![m].errors = Append(@, ThreadError(th))]
                  /\ Goes(t, [th EXCEPT !.pc = "l2"])
               \/ /\ th.pc = "l2"
                  /\ Goes(t, [th EXCEPT !.pc = IF Len(perf[m].errors) > ErrorsCap
                                               THEN "l3" ELSE "l5"])
                  /\ UNCHANGED model_performance
               \/ /\ th.pc = "l3"
                  /\ Goes(t, [th EXCEPT !.pc = "l4",
                                        !.tmp_seq = LastK(perf[m].errors, ErrorsCap)])
                  /\ UNCHANGED model_performance
               \/ /\ th.pc = "l4"
                  /\ model_performance' = [perf EXCEPT ![m].errors = th.tmp_seq]
                  /\ Goes(t, [th EXCEPT !.pc = "l5", !.tmp_seq = <<>>])
               \/ /\ th.pc = "l5"
                  /\ Goes(t, [th EXCEPT
                                  !.pc = "l6",
                                  !.new_weight =
                                      RDiv(RInt(1),
                                           RAdd(RInt(1),
                                                Mean(LastK(perf[m].errors, RecentN))))])
                  /\ UNCHANGED model_performance
               \/ /\ th.pc = "l6"
                  /\ Goes(t, [th EXCEPT !.pc = "l7", !.tmp_rat = perf[m].weights])
                  /\ UNCHANGED model_performance
               \/ /\ th.pc = "l7"
                  /\ LET w == RAdd(RMul(Rat(1, 10), th.new_weight),
                                   RMul(Rat(9, 10), th.tmp_rat))
                         written == [perf EXCEPT ![m].weights = w]
                         next == [th EXCEPT
                                     !.pc = IF th.k < Len(ModelTypes) THEN "l1" ELSE "s1",
                                     !.k = IF th.k < Len(ModelTypes) THEN th.k + 1 ELSE 0,
                                     !.tmp_rat = RInt(0), !.new_weight = RInt(0)]
                     IN  /\ model_performance' = written
                         /\ threads' =
                               [u \in Threads |->
                                   IF u = t THEN next
                                   ELSE Seeing(u, WeightTable(written))]
            /\ UNCHANGED <<coordVars, ens_metadata, model_weights,
                           regime_strategies, store, notConcVars>>

\* the change update_strategy_performance makes for an error
BoostDelta(error) ==
    IF RLess(error, Rat(5, 100)) THEN 10
    ELSE IF RLess(Rat(15, 100), error) THEN -10
    ELSE 0

\* update_with_actual lines 321-327 and update_strategy_performance lines
\* 208-223 in thread t: the read of the last history record, the += or -=
\* on the boost, and the clip of the boost read again
StrategyStep ==
    \E t \in Threads :
        LET th == threads[t]
            regime == th.market_regime
            strategies == regime_strategies
        IN  /\ th.kind = "feedback"
            /\ \/ /\ th.pc = "s1"
                  /\ IF /\ decision_history # <<>>
                        /\ decision_history[Len(decision_history)].symbol = th.symbol
                        /\ LastRegime(decision_history[Len(decision_history)])
                              \in DOMAIN strategies
                     THEN Goes(t, [th EXCEPT
                             !.market_regime =
                                 LastRegime(decision_history[Len(decision_history)]),
                             !.delta = BoostDelta(ThreadError(th)),
                             !.pc = IF BoostDelta(ThreadError(th)) # 0
                                    THEN "s2" ELSE "s4"])
                     ELSE Goes(t, [th EXCEPT !.pc = "v1"])
                  /\ UNCHANGED regime_strategies
               \/ /\ th.pc = "s2"
                  /\ Goes(t, [th EXCEPT !.pc = "s3",
                                        !.tmp_int = strategies[regime].confidence_boost])
                  /\ UNCHANGED regime_strategies
               \/ /\ th.pc = "s3"
                  /\ regime_strategies' =
                        [strategies EXCEPT
                            ![regime].confidence_boost = th.tmp_int + th.delta]
                  /\ Goes(t, [th EXCEPT !.pc = "s4", !.tmp_int = 0, !.delta = 0])
               \/ /\ th.pc = "s4"
                  /\ Goes(t, [th EXCEPT !.pc = "s5",
                                        !.tmp_int = strategies[regime].confidence_boost])
                  /\ UNCHANGED regime_strategies
               \/ /\ th.pc = "s5"
                  /\ regime_strategies' =
                        [strategies EXCEPT
                            ![regime].confidence_boost = Clip(th.tmp_int, -200, 200)]
                  /\ Goes(t, [th EXCEPT !.pc = "v1", !.tmp_int = 0,
                                        !.market_regime = ""])
            /\ UNCHANGED <<coordVars, ens_metadata, model_weights,
                           model_performance, store, notConcVars>>

\* update_with_actual lines 330-331 in thread t: a save that is due raises
\* TypeError out of the call, as in Feedback
SaveStep ==
    \E t \in Threads :
        /\ At(t, "feedback", "v1")
        /\ IF SaveDue
           THEN /\ store' = MalformedFile
                /\ Goes(t, [threads[t] EXCEPT !.pc = "done", !.status = "raised"])
           ELSE /\ UNCHANGED store
                /\ Goes(t, [threads[t] EXCEPT !.pc = "done", !.status = "returned"])
        /\ UNCHANGED <<coordVars, ens_metadata, model_weights, learnerVars,
                       notConcVars>>

ConcNext ==
    \/ PredictBegin
    \/ SnapshotRead
    \/ MetricsStep
    \/ HistoryStep
    \/ FeedbackBegin
    \/ TrackerStep
    \/ ErrorStep
    \/ StrategyStep
    \/ SaveStep

ConcSpec == ConcInit /\ [][ConcNext]_vars

\* ------------------------------------------------------------------------
\* The functions called on their own, each on inputs of its whole domain
\* ------------------------------------------------------------------------
\* set_ensemble_method line 163
valid_methods == {"average", "weighted_average", "voting"}

\* the forecasts and the confidences an ensemble may hold
ForecastValues == {RInt(100), RInt(120), RInt(200), NaN}
ConfidenceValues == {0, 500, 800}

\* the nonempty lists of at most n entries of S
Lists(S, n) == UNION {[1..k -> S] : k \in 1..n}

\* the weights a state file may hold
WeightValues == {RInt(0), Rat(1, 2), RInt(1), Rat(-1, 10)}

\* the state files holding them
WeightFiles ==
    {[StoredFile EXCEPT
         !.content.model_performance =
             [m \in Models |-> [recent_errors |-> <<>>, weights |-> w[m]]]] :
        w \in [Models -> WeightValues]}

\* the function a behaviour calls
FunctionScenarios == {"combine", "weights", "regime", "executor"}

FunctionFiles(scn) == IF scn = "weights" THEN WeightFiles ELSE {AbsentFile}

FunctionInit ==
    /\ scenario \in FunctionScenarios
    /\ function_call = NoCall
    /\ store \in FunctionFiles(scenario)
    /\ model_performance = LoadedPerformance(store)
    /\ regime_strategies = LoadedStrategies(store)
    /\ learner_call = NoLearnerCall
    /\ min_confidence = 600
    /\ decision_history = <<>>
    /\ performance_metrics =
          [total_predictions |-> 0, high_confidence_predictions |-> 0,
           validated_predictions |-> 0, average_confidence |-> RInt(0)]
    /\ ens_metadata = [predictions_made |-> 0, successful_predictions |-> 0]
    /\ model_weights = <<>>
    /\ pc = "idle"
    /\ req = NoRequest
    /\ outcome = NoOutcome
    /\ clock = 0
    /\ stages = <<>>
    /\ invoked = [m \in Models |-> 0]
    /\ failed = [m \in Models |-> 0]
    /\ all_decisions = <<>>
    /\ feedback_calls = 0
    /\ save_attempts = 0
    /\ snap = [history |-> <<>>, metrics |-> performance_metrics]
    /\ threads = <<>>

\* what a call of a function leaves alone
notFunctionVars ==
    <<scenario, min_confidence, decision_history, performance_metrics,
      ens_metadata, model_weights, model_performance, regime_strategies,
      store, pc, req, outcome, clock, stages, invoked, failed, all_decisions,
      feedback_calls, save_attempts, snap, learner_call, threads>>

\* _combine_predictions(predictions, confidences) under one of the methods
\* set_ensemble_method accepts; a behaviour makes one call
CombinePredictions ==
    /\ scenario = "combine"
    /\ function_call = NoCall
    /\ \E method \in valid_methods, predictions \in Lists(ForecastValues, MaxModels) :
          \E confidences \in [1..Len(predictions) -> ConfidenceValues] :
              function_call' =
                  [op |-> "_combine_predictions",
                   method |-> method,
                   predictions |-> predictions,
                   confidences |-> confidences,
                   result |-> CombinedBy(method, predictions, confidences)]
    /\ UNCHANGED notFunctionVars

\* _calculate_adaptive_weights() of a learner that loaded its state
CalculateAdaptiveWeights ==
    /\ scenario = "weights"
    /\ function_call = NoCall
    /\ function_call' =
          [op |-> "_calculate_adaptive_weights",
           result |-> _calculate_adaptive_weights(model_performance)]
    /\ UNCHANGED notFunctionVars

\* the frames regime detection is given: fewer than 50 rows, exactly 50 and
\* more; volatility below, at and above 3%; every order of the last close
\* and the two averages
RegimeFrames ==
    {Frame(rows, volatility, price, sma_20, sma_50) :
        rows \in {0, 49, 50, 60}, volatility \in {10, 30, 31, 40},
        price \in {9, 10, 11}, sma_20 \in {9, 10, 11}, sma_50 \in {9, 10, 11}}

\* _detect_market_regime(data)
DetectMarketRegime ==
    /\ scenario = "regime"
    /\ function_call = NoCall
    /\ \E data \in RegimeFrames :
          function_call' = [op |-> "_detect_market_regime",
                            data |-> data,
                            result |-> _detect_market_regime(data)]
    /\ UNCHANGED notFunctionVars

\* ------------------------------------------------------------------------
\* prediction_executor(data) of the batch worker
\* ------------------------------------------------------------------------
\* what a call of predict_max_profit does: it returns a forecast or raises
Raises == [status |-> "raised", pred |-> NaN, trained |-> FALSE]
Gives(pred, trained) == [status |-> "returned", pred |-> pred, trained |-> trained]

\* per model, inside EnsembleAgent.predict
BackendOutcomes(model_type) ==
    {Gives(b.pred, b.trained) : b \in BackendResults("wide", model_type)} \cup {Raises}

\* the call the executor falls back to (lines 64 and 67)
FallbackOutcomes == {Gives(RInt(10), TRUE), Gives(RInt(77), TRUE), Raises}

\* data['current_value'] as float() leaves it (lines 72-76): a price, zero,
\* or a text float() rejects
CurrentValues == {[ok |-> TRUE, value |-> 100], [ok |-> TRUE, value |-> 0],
                  [ok |-> FALSE, value |-> 0]}

\* the forecasts EnsembleAgent.predict collects from the first i models
RECURSIVE Collected(_, _)
Collected(outs, i) ==
    IF i = 0 THEN <<>>
    ELSE IF outs[ModelTypes[i]].status = "raised" THEN Collected(outs, i - 1)
    ELSE Append(Collected(outs, i - 1),
                [model_type |-> ModelTypes[i],
                 pred |-> outs[ModelTypes[i]].pred,
                 confidence |-> _get_model_confidence(ModelTypes[i],
                                                      outs[ModelTypes[i]].trained)])

\* prediction_coordinator.predict(symbol, validate=True) run to its end: how
\* it ended, what it returned and the coordinator's state after it
CoordinatorOutcome(symbol, d, outs) ==
    IF d.status = "raised"
    THEN [status |-> "raised", result |-> NoResult,
          model_weights |-> model_weights,
          performance_metrics |-> performance_metrics,
          decision_history |-> decision_history]
    ELSE LET market_regime == _detect_market_regime(d.enriched_data)
             strategy == StrategyFor(regime_strategies, market_regime)
             adaptive_weights == _calculate_adaptive_weights(model_performance)
             collected == Collected(outs, Len(ModelTypes))
             predictions == [i \in 1..Len(collected) |-> collected[i].pred]
             confidences == [i \in 1..Len(collected) |-> collected[i].confidence]
             r == [NoRequest EXCEPT !.symbol = symbol,
                                    !.validate = TRUE,
                                    !.data_quality = d.quality_score,
                                    !.market_regime = market_regime,
                                    !.confidence_adjustment = strategy.confidence_boost,
                                    !.adaptive_weights = adaptive_weights]
         IN  IF collected = <<>>
             THEN [status |-> "raised", result |-> NoResult,
                   model_weights |-> adaptive_weights,
                   performance_metrics |-> performance_metrics,
                   decision_history |-> decision_history]
             ELSE \* the request is stamped with the count of requests begun
                  LET result == [ResultOf(r, predictions, confidences)
                                    EXCEPT !.timestamp = clock + 1]
                  IN  [status |-> "returned", result |-> result,
                       model_weights |-> adaptive_weights,
                       performance_metrics |->
                           _update_performance(performance_metrics, result),
                       decision_history |->
                           _log_decision_record(decision_history, result)]

\* the rejected forecast kept as the price
executor_price_keep_rejected(co, fallback) ==
    IF co.status = "returned"
    THEN [status |-> "returned", value |-> co.result.prediction]
    ELSE [status |-> fallback.status, value |-> fallback.pred]

\* lines 51-69: the price the executor goes on with, or the exception of the
\* fallback call
executor_price(co, fallback) ==
    IF co.status = "returned" /\ co.result.decision # "reject"
    THEN [status |-> "returned", value |-> co.result.prediction]
    ELSE [status |-> fallback.status, value |-> fallback.pred]

\* lines 54-55 and 68-69: the confidence and the decision reported
executor_report(co) ==
    IF co.status = "returned"
    THEN [confidence |-> co.result.confidence, decision |-> co.result.decision]
    ELSE [confidence |-> 500, decision |-> "fallback"]

\* lines 71-113: the rows created and the events emitted once the price is
\* settled; an exception ends the call at the handler of line 103
ExecutorEffects(websocket, current, price, report) ==
    LET started == IF websocket THEN <<[event |-> "prediction_progress", status |-> "processing"]>>
                   ELSE <<>>
        errored == IF websocket THEN <<[event |-> "prediction_progress", status |-> "error"]>>
                   ELSE <<>>
        row == [predicted_price |-> price.value, current_price |-> current.value]
        update == [event |-> "prediction_update",
                   predicted_price |-> price.value,
                   current_price |-> current.value,
                   confidence |-> report.confidence,
                   decision |-> report.decision]
    IN  IF price.status = "raised" \/ ~current.ok
        THEN [created |-> <<>>, emitted |-> started \o errored]
        ELSE IF ~websocket
        THEN [created |-> <<row>>, emitted |-> <<>>]
        ELSE IF current.value = 0
        THEN \* line 90 divides by the current price
             [created |-> <<row>>, emitted |-> started \o errored]
        ELSE [created |-> <<row>>, emitted |-> started \o <<update>>]

\* prediction_executor(data) with a security_id: the coordinator is asked
\* first, the fallback when it rejects or raises
PredictionExecutor ==
    /\ scenario = "executor"
    /\ function_call = NoCall
    /\ \E symbol \in Symbols, websocket \in BOOLEAN, current \in CurrentValues,
          d \in {[status |-> "returned", enriched_data |-> x.enriched_data,
                  quality_score |-> x.quality_score] : x \in DataResults("wide")}
                \cup {[status |-> "raised", enriched_data |-> ShortFrame,
                        quality_score |-> 0]},
          outs \in [Models -> UNION {BackendOutcomes(m) : m \in Models}],
          fallback \in FallbackOutcomes :
          /\ \A m \in Models : outs[m] \in BackendOutcomes(m)
          /\ \E co \in {CoordinatorOutcome(symbol, d, outs)} :
                /\ model_weights' = co.model_weights
                /\ performance_metrics' = co.performance_metrics
                /\ decision_history' = co.decision_history
                /\ \E price \in {executor_price(co, fallback)} :
                      \E effects \in {ExecutorEffects(websocket, current, price,
                                                      executor_report(co))} :
                          function_call' =
                              [op |-> "prediction_executor",
                               coordinator |-> [status |-> co.status,
                                                decision |-> co.result.decision,
                                                prediction |-> co.result.prediction],
                               fallback |-> fallback,
                               created |-> effects.created,
                               emitted |-> effects.emitted]
    /\ clock' = clock + 1
    /\ UNCHANGED <<scenario, min_confidence, ens_metadata, model_performance,
                   regime_strategies, store, pc, req, outcome, stages, invoked,
                   failed, all_decisions, feedback_calls, save_attempts, snap,
                   learner_call, threads>>

\* prediction_executor(data) without a security_id (line 36): nothing is done
PredictionExecutorNoSymbol ==
    /\ scenario = "executor"
    /\ function_call = NoCall
    /\ function_call' = [op |-> "prediction_executor",
                         coordinator |-> [status |-> "none", decision |-> "",
                                          prediction |-> RInt(0)],
                         fallback |-> Raises,
                         created |-> <<>>,
                         emitted |-> <<>>]
    /\ UNCHANGED notFunctionVars

FunctionNext ==
    \/ CombinePredictions
    \/ CalculateAdaptiveWeights
    \/ DetectMarketRegime
    \/ PredictionExecutor
    \/ PredictionExecutorNoSymbol

FunctionSpec == FunctionInit /\ [][FunctionNext]_vars

\* ------------------------------------------------------------------------
\* Properties
\* ------------------------------------------------------------------------
Returned == outcome.call = "predict" /\ outcome.status = "returned"
Result == outcome.result

\* the sanity check of step 7, stated on the returned forecast
FailsSanity(r) ==
    \/ IsNaN(r.prediction)
    \/ r.prediction.n <= 0
    \/ r.confidence < 500

\* C1: with validation off the returned decision is accept exactly when the
\* trust score is at least 0.75, caution exactly when it is at least
\* min_confidence and below 0.75, and reject otherwise (both limits
\* inclusive)
C1_GateThresholds ==
    (Returned /\ ~Result.validate) =>
        LET t == Result.trust_score
            atLeastAccept == 4 * t.n >= 3 * t.d
            atLeastMin == 1000 * t.n >= Result.threshold * t.d
        IN  /\ (Result.decision = "accept") <=> atLeastAccept
            /\ (Result.decision = "caution") <=> (atLeastMin /\ ~atLeastAccept)
            /\ (Result.decision = "reject") <=> (~atLeastMin /\ ~atLeastAccept)

\* a forecast with trust exactly 0.75 returned with validation off
C1_Witness ==
    /\ Returned /\ ~Result.validate
    /\ Result.trust_score = Rat(3, 4)
    /\ Result.decision = "accept"

\* C2: every returned result has its confidence within [0, 1] and the trust
\* score of its gate decision within [0, 1]
C2_ConfidenceAndTrustInUnitRange ==
    Returned =>
        /\ Result.confidence >= 0 /\ Result.confidence <= 1000
        /\ Result.trust_score.d > 0
        /\ Result.trust_score.n >= 0
        /\ Result.trust_score.n <= Result.trust_score.d

\* a result whose base confidence plus boost exceeded 1 and was clamped
C2_Witness ==
    /\ Returned
    /\ Result.base_confidence + Result.confidence_adjustment > 1000
    /\ Result.confidence = 1000

\* C3: with validation on, a forecast failing the sanity check has the
\* gate's decision lowered by exactly one level (reject stays reject), and
\* a forecast passing it keeps the gate's decision
C3_ValidationDowngradesOneLevel ==
    (Returned /\ Result.validate) =>
        IF FailsSanity(Result)
        THEN Result.decision =
                (CASE Result.gate = "accept" -> "caution"
                   [] Result.gate = "caution" -> "reject"
                   [] OTHER -> "reject")
        ELSE Result.decision = Result.gate

\* a forecast the gate accepted, failing the sanity check, returned as caution
C3_Witness ==
    /\ Returned /\ Result.validate
    /\ FailsSanity(Result)
    /\ Result.gate = "accept"
    /\ Result.decision = "caution"

\* C4: every weights snapshot the learner returns has each weight >= 0 and
\* the weights summing to 1, whatever nonzero actual values were fed back
C4_SnapshotNormalized ==
    model_weights # <<>> =>
        /\ \A m \in Models : model_weights[m].n >= 0
        /\ RAdd(model_weights["transformer"], model_weights["lstm"]) = RInt(1)

PredictEnded ==
    /\ outcome.call = "predict"
    /\ pc = "idle"
    /\ outcome.status \in {"returned", "raised"}

EveryBackendFailed == \A m \in Models : invoked[m] = 1 /\ failed[m] = 1

\* C5: within one request each backend is invoked at most once; a request
\* in which some backend answered returns a result built from the backends
\* that answered; predict() raises the no-prediction error if and only if
\* every backend failed, and then the decision history and the running
\* metrics are what they were when the request began
C5_BackendFailureHandling ==
    /\ \A m \in Models : invoked[m] <= 1 /\ failed[m] <= invoked[m]
    /\ PredictEnded =>
          /\ (outcome.status = "raised" /\ outcome.error = "NoPrediction")
                <=> EveryBackendFailed
          /\ outcome.status = "returned" =>
                /\ Result.num_models >= 1
                /\ Result.num_models =
                      Cardinality({m \in Models : invoked[m] = 1 /\ failed[m] = 0})
          /\ EveryBackendFailed =>
                /\ decision_history = snap.history
                /\ performance_metrics = snap.metrics

\* every backend failed in a request made after a decision had been recorded
C5_Witness ==
    /\ PredictEnded
    /\ EveryBackendFailed
    /\ outcome.error = "NoPrediction"
    /\ decision_history # <<>>

\* a request that succeeded although one backend failed
C5_PartialWitness ==
    /\ PredictEnded
    /\ outcome.status = "returned"
    /\ \E m \in Models : failed[m] = 1

AllStages == <<"DATA_ENRICHED", "REGIME_DETECTED", "ENSEMBLE_SCORED", "TRUST_GATED">>

\* C6: a predict() request that has ended went through data enrichment,
\* regime detection, ensemble scoring and the trust gate in that order, once
\* each, and ended in accept, caution or reject with a recommendation; the
\* only error outcome is the one raised when every backend failed
C6_StagesThenDecisionOrNoPrediction ==
    PredictEnded =>
        \/ /\ outcome.status = "returned"
           /\ stages = AllStages
           /\ Result.decision \in {"accept", "caution", "reject"}
           /\ Result.recommendation # ""
        \/ /\ outcome.status = "raised"
           /\ outcome.error = "NoPrediction"
           /\ EveryBackendFailed

\* C7: after n successful predict() calls the decision history holds the
\* most recent min(n, cap) decisions in the order they were made
C7_HistoryKeepsMostRecent ==
    LET n == Len(all_decisions)
        k == IF n < HistoryCap THEN n ELSE HistoryCap
    IN  /\ Len(decision_history) = k
        /\ \A i \in 1..k :
              /\ decision_history[i].timestamp = all_decisions[n - k + i].timestamp
              /\ decision_history[i].symbol = all_decisions[n - k + i].symbol
              /\ decision_history[i].decision = all_decisions[n - k + i].decision

\* more decisions were made than the history holds
C7_Witness ==
    /\ Len(all_decisions) > HistoryCap
    /\ Len(decision_history) = HistoryCap
    /\ decision_history[1].timestamp = all_decisions[Len(all_decisions) - HistoryCap + 1].timestamp

FeedbackStep == feedback_calls' = feedback_calls + 1

\* C8: feedback for the symbol of the most recent history entry applies the
\* regime-strategy update to the regime detected for that entry and to no
\* other; feedback for another symbol, or with an empty history, changes no
\* regime strategy
C8_FeedbackUpdatesRecordedRegime ==
    [][(FeedbackStep /\ outcome'.error # "ZeroDivisionError") =>
          LET a == outcome'.args
          IN  IF decision_history # <<>>
                 /\ decision_history[Len(decision_history)].symbol = a.symbol
              THEN regime_strategies' =
                      update_strategy_performance(regime_strategies,
                          all_decisions[Len(all_decisions)].market_regime,
                          a.predicted, a.actual)
              ELSE regime_strategies' = regime_strategies]_vars

\* C9: after k feedback calls exactly floor(k / period) saves have been
\* attempted, however many predict() calls were made
C9_SaveEveryNthFeedback ==
    save_attempts = feedback_calls \div SavePeriod

\* C10: a feedback() call whose learning-state save failed returned normally
C10_SaveFailureSwallowed ==
    (outcome.call = "feedback" /\ outcome.save_failed) =>
        outcome.status = "returned"

\* the weights of a snapshot are non-negative and sum to 1
ProperSnapshot(w) ==
    /\ \A m \in Models : w[m].n >= 0
    /\ RAdd(w["transformer"], w["lstm"]) = RInt(1)

\* C16: the weights fetched from the learner are an input of the
\* combination: two requests in which both backends returned the same two
\* differing forecasts with the same confidences, made under different
\* normalized weights, return different combined predictions
C16_WeightsEnterCombination ==
    \A i \in 1..Len(all_decisions) : \A j \in 1..Len(all_decisions) :
        LET a == all_decisions[i]
            b == all_decisions[j]
        IN  (/\ Len(a.predictions) = 2
             /\ ~AnyNaN(a.predictions)
             /\ a.predictions[1] # a.predictions[2]
             /\ a.predictions = b.predictions
             /\ a.confidences = b.confidences
             /\ ProperSnapshot(a.adaptive_weights)
             /\ ProperSnapshot(b.adaptive_weights)
             /\ a.adaptive_weights # b.adaptive_weights)
            => a.prediction # b.prediction

\* the most recent decision made for a symbol (0 when there is none)
LastDecisionFor(symbol) ==
    LET made == {i \in 1..Len(all_decisions) : all_decisions[i].symbol = symbol}
    IN  IF made = {} THEN 0 ELSE CHOOSE i \in made : \A k \in made : k <= i

\* C17: a feedback call adds exactly 1 to the ensemble tracker's
\* predictions_made and records exactly one error sample for every model
\* the ensemble used for the symbol's forecast, and none for a model it did
\* not use
C17_FeedbackReachesModelsUsed ==
    [][(/\ FeedbackStep
        /\ outcome'.args.actual # 0
        /\ LastDecisionFor(outcome'.args.symbol) # 0) =>
          LET a == outcome'.args
              used == all_decisions[LastDecisionFor(a.symbol)].model_details
              sample == RelativeError(a.predicted, a.actual)
          IN  /\ ens_metadata'.predictions_made = ens_metadata.predictions_made + 1
              /\ \A m \in Models :
                    IF \E k \in 1..Len(used) : used[k] = m
                    THEN /\ Len(model_performance'[m].errors) =
                              Len(LastK(Append(model_performance[m].errors, sample),
                                        ErrorsCap))
                    ELSE model_performance'[m] = model_performance[m]]_vars

\* ------------------------------------------------------------------------
\* Properties of the learner called on its own (LearnerSpec)
\* ------------------------------------------------------------------------
LearnerCalled(op) == learner_call.op = op

\* C11: when loading the learning state fails at construction, the
\* construction returns and the weight table, the error histories and the
\* regime-strategy table are the constructor defaults
C11_FailedLoadLeavesDefaults ==
    (LearnerCalled("load") /\ ~LoadSucceeds(store)) =>
        /\ learner_call.status = "returned"
        /\ model_performance = DefaultPerformance
        /\ regime_strategies = DefaultStrategies

\* C12: a save followed by a load into a new learner restores every
\* model's weight and error history and every regime's strategy
C12_SaveLoadRoundTrip ==
    (LearnerCalled("load") /\ learner_call.prev.op = "save") =>
        /\ model_performance = learner_call.prior.model_performance
        /\ regime_strategies = learner_call.prior.regime_strategies

\* the boost the claim expects of one update of a recognized regime
ExpectedBoost(b, predicted, actual) ==
    LET e == RelativeError(predicted, actual)
    IN  IF RLess(e, Rat(5, 100)) THEN Clip(b + 10, -200, 200)
        ELSE IF RLess(Rat(15, 100), e) THEN Clip(b - 10, -200, 200)
        ELSE b

\* C18: after update_regime_strategy calls made from the default table
\* every boost is within [-0.2, 0.2]; a call changes only the named regime,
\* by +0.01 when the relative error is below 5% and by -0.01 when it is
\* above 15% (then clamped), and changes nothing when the error is between
\* 5% and 15% inclusive or the regime is unrecognized
C18_RegimeBoostUpdate ==
    (LearnerCalled("update_strategy_performance") /\ learner_call.actual # 0) =>
        LET before == learner_call.prior.regime_strategies
            regime == learner_call.target
        IN  /\ \A r \in Regimes :
                  /\ regime_strategies[r].confidence_boost >= -200
                  /\ regime_strategies[r].confidence_boost <= 200
                  /\ regime_strategies[r].model_preference = before[r].model_preference
                  /\ r # regime =>
                        regime_strategies[r].confidence_boost = before[r].confidence_boost
            /\ regime \in Regimes =>
                  regime_strategies[regime].confidence_boost =
                      ExpectedBoost(before[regime].confidence_boost,
                                    learner_call.predicted, learner_call.actual)

\* C19: record_error with actual = 0 returns without raising and leaves the
\* model's error history and weight as they were
C19_ZeroActualSkipped ==
    (/\ LearnerCalled("learn_from_error")
     /\ learner_call.target \in Models
     /\ learner_call.actual = 0) =>
        /\ learner_call.status = "returned"
        /\ model_performance[learner_call.target] =
              learner_call.prior.model_performance[learner_call.target]

\* a call of learn_from_error on a model of the table that returned, with
\* a zero error or with a nonzero one
ErrorFed(call, zero) ==
    /\ call.op = "learn_from_error"
    /\ call.status = "returned"
    /\ call.target \in Models
    /\ (call.predicted = call.actual) <=> zero

\* the normalized weight of model m in a table of raw weights
NormalizedWeight(w, m) ==
    _calculate_adaptive_weights([x \in Models |-> [errors |-> <<>>, weights |-> w[x]]])[m]

CurrentWeights == [m \in Models |-> model_performance[m].weights]

\* 1 - w as a distance
DistanceToOne(w) ==
    LET diff == RAdd(RInt(1), RMul(RInt(-1), w))
    IN  Rat(Abs(diff.n), diff.d)

\* C20: a zero-error sample never lowers the model's raw weight and never
\* takes it further from 1; and over a pair of calls feeding one model a
\* zero error and the other a nonzero error, the normalized weight of the
\* first strictly increases
C20_ZeroErrorRaisesWeight ==
    /\ ErrorFed(learner_call, TRUE) =>
          LET m == learner_call.target
              old == learner_call.prior.model_performance[m].weights
              new == model_performance[m].weights
          IN  /\ RLeq(old, new)
              /\ RLeq(DistanceToOne(new), DistanceToOne(old))
    /\ \A a \in Models : \A b \in Models \ {a} :
          (\/ /\ ErrorFed(learner_call.prev, TRUE) /\ learner_call.prev.target = a
              /\ ErrorFed(learner_call, FALSE) /\ learner_call.target = b
           \/ /\ ErrorFed(learner_call.prev, FALSE) /\ learner_call.prev.target = b
              /\ ErrorFed(learner_call, TRUE) /\ learner_call.target = a)
          => RLess(NormalizedWeight(learner_call.prev.weights, a),
                   NormalizedWeight(CurrentWeights, a))

\* the recent errors of model m are all zero
WindowAllZero(m) ==
    LET recent == LastK(model_performance[m].errors, RecentN)
    IN  \A i \in 1..Len(recent) : recent[i].n = 0

\* C20 (amended): a zero-error sample after which the model's recent errors
\* are all zero moves the raw weight toward 1 without passing it: a weight
\* below 1 rises and stays at most 1, a weight above 1 falls and stays at
\* least 1, and a weight other than 1 changes
C20_ZeroWindowMovesTowardOne ==
    (ErrorFed(learner_call, TRUE) /\ WindowAllZero(learner_call.target)) =>
        LET m == learner_call.target
            old == learner_call.prior.model_performance[m].weights
            new == model_performance[m].weights
        IN  /\ RLeq(old, RInt(1)) => (RLeq(old, new) /\ RLeq(new, RInt(1)))
            /\ RLeq(RInt(1), old) => (RLeq(new, old) /\ RLeq(RInt(1), new))
            /\ old # RInt(1) => new # old

\* a zero-error sample, with only zero errors in the window, raised a
\* weight that stood below 1
C20_Witness ==
    /\ ErrorFed(learner_call, TRUE)
    /\ WindowAllZero(learner_call.target)
    /\ RLess(learner_call.prior.model_performance[learner_call.target].weights, RInt(1))
    /\ RLess(learner_call.prior.model_performance[learner_call.target].weights,
             model_performance[learner_call.target].weights)
    /\ Len(model_performance[learner_call.target].errors) > RecentN

\* ------------------------------------------------------------------------
\* Properties of concurrent calls (ConcSpec)
\* ------------------------------------------------------------------------
\* every call has come to its end
AllDone == \A t \in DOMAIN threads : threads[t].pc = "done"

\* the threads whose request ended in one of the given decisions
DecidedIn(decisions) ==
    {t \in DOMAIN threads : threads[t].result.decision \in decisions}

\* the threads whose record the history holds
Recorded ==
    {t \in DOMAIN threads :
        \E i \in 1..Len(decision_history) :
            decision_history[i] = DecisionRecord(threads[t].result)}

\* C13: when the N concurrent predict() calls have all completed,
\* total_predictions has grown by N, high_confidence_predictions by the
\* number of accept decisions and validated_predictions by the number of
\* non-reject decisions among them, and the history holds one entry per call
\* (the most recent HistoryCap of all entries)
C13_NoLostPredictUpdate ==
    (scenario[1] = "predicts" /\ AllDone) =>
        LET before == ConcStartMetrics(scenario)
            N == Cardinality(DOMAIN threads)
        IN  /\ performance_metrics.total_predictions =
                  before.total_predictions + N
            /\ performance_metrics.high_confidence_predictions =
                  before.high_confidence_predictions
                      + Cardinality(DecidedIn({"accept"}))
            /\ performance_metrics.validated_predictions =
                  before.validated_predictions
                      + Cardinality(DecidedIn({"accept", "caution", "review"}))
            /\ Len(decision_history) =
                  Min(Len(ConcStartHistory(scenario)) + N, HistoryCap)
            /\ Cardinality(Recorded) = Min(N, HistoryCap)

\* the learner's tables after one update_with_actual call made alone
AfterFeedbackAlone(tables, history, th) ==
    [model_performance |->
        LearnedPerformance(tables.model_performance, th.predicted, th.actual),
     regime_strategies |->
        UpdatedStrategies(tables.regime_strategies, history, th.symbol,
                          th.predicted, th.actual)]

\* the tables every serial order of the calls of the threads in S leaves
RECURSIVE SerialOutcomes(_, _, _)
SerialOutcomes(S, tables, history) ==
    IF S = {} THEN {tables}
    ELSE UNION {SerialOutcomes(S \ {t},
                               AfterFeedbackAlone(tables, history, threads[t]),
                               history) : t \in S}

\* C14: when the concurrent feedback calls have all completed, each model's
\* weight and error history and each regime's confidence_boost are those
\* some serial order of the same calls produces
C14_ConcurrentFeedbackIsSerial ==
    (scenario[1] = "feedbacks" /\ AllDone) =>
        [model_performance |-> model_performance,
         regime_strategies |-> regime_strategies]
            \in SerialOutcomes(DOMAIN threads,
                               [model_performance |-> ConcStartPerformance(scenario),
                                regime_strategies |-> DefaultStrategies],
                               ConcStartHistory(scenario))

\* the snapshot _calculate_adaptive_weights makes of a weight table
SnapshotOf(table) ==
    _calculate_adaptive_weights(
        [m \in Models |-> [errors |-> <<>>, weights |-> table[m]]])

\* C15: the weights snapshot a request has taken is the normalization of
\* the weight table as it stood at one moment between the start of the
\* request and the end of the snapshot
C15_SnapshotIsPointInTime ==
    \A t \in DOMAIN threads :
        (threads[t].kind = "predict" /\ threads[t].pc \notin {"start", "w1", "w2"}) =>
            \E table \in threads[t].seen :
                threads[t].adaptive_weights = SnapshotOf(table)

\* ------------------------------------------------------------------------
\* Properties of the functions called on their own (FunctionSpec)
\* ------------------------------------------------------------------------
Called(op) == function_call.op = op

\* the rearrangements of the list ps
Rearrangements(ps) ==
    {[i \in 1..Len(ps) |-> ps[f[i]]] :
        f \in {g \in [1..Len(ps) -> 1..Len(ps)] :
                  \A i \in 1..Len(ps) : \A j \in 1..Len(ps) : g[i] = g[j] => i = j}}

\* the entries of s stand in nondecreasing order
InOrder(s) == \A i \in 1..(Len(s) - 1) : RLeq(s[i], s[i + 1])

\* v is the middle value of the entries s holds in order, the mean of the
\* two middle values for an even count
IsMiddleOf(v, s) ==
    IF Len(s) % 2 = 1 THEN v = s[(Len(s) + 1) \div 2]
    ELSE RMul(v, RInt(2)) = RAdd(s[Len(s) \div 2], s[Len(s) \div 2 + 1])

\* C21: with a single model every method returns that model's prediction;
\* 'voting' returns the median of the forecasts (the mean of the two middle
\* values for an even count); 'weighted_average' returns the simple average
\* when all confidences are zero
C21_CombinationMethods ==
    Called("_combine_predictions") =>
        LET ps == function_call.predictions
            cs == function_call.confidences
            result == function_call.result
        IN  /\ Len(ps) = 1 => result = ps[1]
            /\ (function_call.method = "voting" /\ ~AnyNaN(ps)) =>
                  \E s \in Rearrangements(ps) : InOrder(s) /\ IsMiddleOf(result, s)
            /\ (function_call.method = "weighted_average" /\ ~AnyNaN(ps)
                /\ \A i \in 1..Len(cs) : cs[i] = 0) =>
                  RMul(result, RInt(Len(ps))) = RSum(ps)

\* 'voting' returned 120 for the forecasts 200, 100, 120 and 110 for 120, 100
C21_Witness ==
    /\ Called("_combine_predictions")
    /\ function_call.method = "voting"
    /\ \/ /\ function_call.predictions = <<RInt(200), RInt(100), RInt(120)>>
          /\ function_call.result = RInt(120)
       \/ /\ function_call.predictions = <<RInt(120), RInt(100)>>
          /\ function_call.result = RInt(110)

\* C28: when the raw weight of every model is zero the snapshot is uniform,
\* 1/n for each of the n models
C28_ZeroWeightsGiveUniform ==
    (/\ Called("_calculate_adaptive_weights")
     /\ \A m \in Models : model_performance[m].weights = RInt(0))
        => \A m \in Models : function_call.result[m] = Rat(1, Cardinality(Models))

Uptrend(data) == data.price > data.sma_20 /\ data.sma_20 > data.sma_50
Downtrend(data) == data.price < data.sma_20 /\ data.sma_20 < data.sma_50

\* C29: a series of fewer than 50 observations is 'sideways'; otherwise the
\* first rule that matches decides, in the order volatile (above 3%), bull,
\* bear, sideways; the learner's state is as it was
C29_RegimeRulesInOrder ==
    Called("_detect_market_regime") =>
        LET data == function_call.data
            regime == function_call.result
        IN  /\ data.rows < 50 => regime = "sideways"
            /\ data.rows >= 50 =>
                  /\ data.volatility > 30 => regime = "volatile"
                  /\ (data.volatility <= 30 /\ Uptrend(data)) => regime = "bull"
                  /\ (data.volatility <= 30 /\ Downtrend(data)) => regime = "bear"
                  /\ (data.volatility <= 30 /\ ~Uptrend(data) /\ ~Downtrend(data))
                        => regime = "sideways"
            /\ model_performance = LoadedPerformance(store)
            /\ regime_strategies = LoadedStrategies(store)

C29_Witness ==
    /\ Called("_detect_market_regime")
    /\ function_call.data.rows >= 50
    /\ function_call.data.volatility > 30
    /\ Uptrend(function_call.data)
    /\ function_call.result = "volatile"

\* the prices that reached the store or a price update
PricesOut ==
    {function_call.created[i].predicted_price : i \in 1..Len(function_call.created)}
    \cup {function_call.emitted[i].predicted_price :
             i \in {j \in 1..Len(function_call.emitted) :
                       function_call.emitted[j].event = "prediction_update"}}

CoordinatorAccepted ==
    /\ function_call.coordinator.status = "returned"
    /\ function_call.coordinator.decision \in {"accept", "caution"}

\* C30: the price the executor stores and emits is the coordinator's
\* forecast only when its decision is accept or caution; when the decision
\* is reject or the coordinator raised it is what the fallback call returned
C30_RejectedForecastNotStored ==
    Called("prediction_executor") =>
        \A price \in PricesOut :
            IF CoordinatorAccepted
            THEN price = function_call.coordinator.prediction
            ELSE /\ function_call.fallback.status = "returned"
                 /\ price = function_call.fallback.pred

C30_Witness ==
    /\ Called("prediction_executor")
    /\ function_call.coordinator.status = "returned"
    /\ function_call.coordinator.decision = "reject"
    /\ function_call.coordinator.prediction # function_call.fallback.pred
    /\ Len(function_call.created) = 1
    /\ function_call.created[1].predicted_price = function_call.fallback.pred
    /\ \E i \in 1..Len(function_call.emitted) :
          function_call.emitted[i].event = "prediction_update"

\* ------------------------------------------------------------------------
\* Further properties of the coordinator (Spec)
\* ------------------------------------------------------------------------
\* C22: whatever threshold within [0, 1] is in force, set by the constructor
\* or by set_confidence_threshold(), a returned decision of accept or
\* caution has a trust score of at least that threshold
C22_AcceptedMeetsThreshold ==
    (Returned /\ Result.decision \in {"accept", "caution"}) =>
        1000 * Result.trust_score.n >= Result.threshold * Result.trust_score.d

\* C23: a feedback call that raises leaves the tracker's counters, every
\* model's weight and error history and every regime's boost as they were
\* before the call
C23_FeedbackAllOrNothing ==
    [][(/\ feedback_calls' = feedback_calls + 1
        /\ outcome'.call = "feedback"
        /\ outcome'.status = "raised")
          => /\ ens_metadata' = ens_metadata
             /\ model_performance' = model_performance
             /\ regime_strategies' = regime_strategies]_vars

\* the records of 'transformer' and 'lstm' are identical and the snapshot of
\* the weights a request obtained is 0.5 / 0.5
IdenticalRecordsEvenSnapshot ==
    /\ model_performance["transformer"] = model_performance["lstm"]
    /\ (pc = "backend" \/ Returned) =>
          LET snapshot == IF Returned THEN Result.adaptive_weights
                          ELSE req.adaptive_weights
          IN  \A m \in Models : snapshot[m] = Rat(1, 2)

\* C24: the default learner state has identical records, and whatever
\* predict() or feedback step follows a state with identical records and a
\* 0.5 / 0.5 snapshot leads to such a state again
C24_IdenticalRecordsEvenSnapshot ==
    [][IdenticalRecordsEvenSnapshot => IdenticalRecordsEvenSnapshot']_vars

\* ------------------------------------------------------------------------
\* Further properties of the learner called directly (LearnerSpec)
\* ------------------------------------------------------------------------
\* C25: after a load that succeeds every weight is at least 0, every boost
\* lies within [-0.2, 0.2], every error history is within its cap and each
\* of the four regimes has a strategy
C25_LoadedStateIsValid ==
    (LearnerCalled("load") /\ LoadSucceeds(store)) =>
        /\ \A m \in Models :
              /\ RLeq(RInt(0), model_performance[m].weights)
              /\ Len(model_performance[m].errors) <= ErrorsCap
        /\ Regimes \subseteq DOMAIN regime_strategies
        /\ \A r \in Regimes :
              /\ regime_strategies[r].confidence_boost >= -200
              /\ regime_strategies[r].confidence_boost <= 200

\* the sum of the confidences of the decisions made
RECURSIVE ConfidenceSum(_)
ConfidenceSum(decisions) ==
    IF decisions = <<>> THEN 0
    ELSE Head(decisions).confidence + ConfidenceSum(Tail(decisions))

Decided(labels) ==
    Cardinality({i \in 1..Len(all_decisions) : all_decisions[i].decision \in labels})

\* C26: after n returned requests the metrics hold n, the number of accept
\* decisions, the number of accept or caution decisions and the arithmetic
\* mean of the n confidences; feedback changes none of them
C26_MetricsCountDecisions ==
    LET n == Len(all_decisions)
        pm == performance_metrics
    IN  /\ pm.total_predictions = n
        /\ pm.high_confidence_predictions = Decided({"accept"})
        /\ pm.validated_predictions = Decided({"accept", "caution"})
        /\ pm.high_confidence_predictions <= pm.validated_predictions
        /\ pm.validated_predictions <= pm.total_predictions
        /\ RMul(pm.average_confidence, RInt(n)) = RInt(ConfidenceSum(all_decisions))

C26_Witness ==
    /\ Len(all_decisions) >= 3
    /\ feedback_calls >= 1
    /\ Decided({"accept"}) >= 1
    /\ Decided({"caution"}) >= 1
    /\ \E i \in 1..Len(all_decisions) :
          all_decisions[i].confidence # all_decisions[1].confidence

\* C27: a learn_from_error call keeps each error history within its cap,
\* holding the most recent samples in arrival order; it leaves the other
\* model's history and weight alone, and a call for an unknown model
\* changes nothing
C27_ErrorHistoryKeepsMostRecent ==
    LearnerCalled("learn_from_error") =>
        LET before == learner_call.prior.model_performance
            m == learner_call.target
        IN  /\ \A k \in Models : Len(model_performance[k].errors) <= ErrorsCap
            /\ regime_strategies = learner_call.prior.regime_strategies
            /\ IF m \in Models /\ learner_call.status = "returned"
               THEN LET old == before[m].errors
                        new == model_performance[m].errors
                        kept == Len(new) - 1
                    IN  /\ Len(new) = Min(Len(old) + 1, ErrorsCap)
                        /\ \A i \in 1..kept : new[i] = old[Len(old) - kept + i]
                        /\ \A k \in Models \ {m} : model_performance[k] = before[k]
               ELSE model_performance = before

C27_Witness ==
    /\ LearnerCalled("learn_from_error")
    /\ learner_call.status = "returned"
    /\ learner_call.target \in Models
    /\ Len(learner_call.prior.model_performance[learner_call.target].errors) = ErrorsCap
    /\ model_performance[learner_call.target].errors[1] #
          learner_call.prior.model_performance[learner_call.target].errors[1]

====
